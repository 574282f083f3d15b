--------------------------- MODULE PagedRowProofs ---------------------------
(***************************************************************************)
(* Proofs about CudaPagedKv: the content of the rows.  PagedProofs says    *)
(* which pages a sequence holds and that there are enough of them; here is *)
(* what is in them.                                                        *)
(***************************************************************************)
EXTENDS PagedProofs

\* What the rows of s are computed from: a decode step's token is not in toks before
\* the step has ended.
Text(s) == IF Decodes /\ s \in Elems(op.rows) THEN toks[s] \o op.in[s] ELSE toks[s]

\* The first n rows of the pages hs were computed from the first n tokens of x.
Holds(d, hs, n, x) ==
    n <= Len(x) /\ \A q \in 0 .. n - 1 : RowAt(d, hs, q) = SubSeq(x, 1, q + 1)

TablesHold == \A s \in DOMAIN tables : Holds(dev, tables[s].pages, tables[s].len, Text(s))
PrefixHolds == \A c \in cached : Holds(dev, c.table.pages, c.table.len, c.toks)

\* A planned row has what its table has; a computed one has what it appends as well.
Computing(r) == IF op.stage = "commit" THEN r.from + Len(op.in[r.seq]) ELSE r.from
PendsHold ==
    op.stage # "abort" =>
        \A i \in DOMAIN op.pend :
            Holds(dev, op.pend[i].pages, Computing(op.pend[i]), Text(op.pend[i].seq))

Recorded ==
    \A s \in DOMAIN record :
        Len(record[s]) <= Len(toks[s]) /\ record[s] = SubSeq(toks[s], 1, Len(record[s]))

Started ==
    /\ \A s \in DOMAIN tables : phase[s] \notin {"new", "ended"}
    /\ \A s \in Sessions : phase[s] = "decode" => pos[s] = Len(toks[s])

\* A decode step's row is not in the table before it is committed.
Unsettled ==
    Decodes => \A s \in Elems(op.rows) \cap DOMAIN tables :
        op.stage # "commit" \/ s \in PendSeqs => tables[s].len <= Len(toks[s])

\* What is appended is what comes next in the text.
Next1(x, n, y) == n + Len(y) <= Len(x) /\ y = SubSeq(x, n + 1, n + Len(y))
Chunk ==
    Prefills /\ op.stage \in {"enter", "cursor"} =>
        \A s \in Elems(op.rows) : Next1(toks[s], done[s], op.in[s])
InText ==
    Ahead => \A s \in Elems(op.todo) \cup PendSeqs : Next1(Text(s), tables[s].len, op.in[s])

RowInv ==
    /\ TablesHold /\ PrefixHolds /\ PendsHold
    /\ Recorded /\ Started /\ Unsettled /\ Chunk /\ InText

\* The place of a row among the pages.
LEMMA PlaceIs ==
    ASSUME NEW q \in Nat, NEW n \in Nat, q < n
    PROVE  /\ q \div PageTokens + 1 \in 1 .. DivCeil(n, PageTokens)
           /\ q % PageTokens \in 0 .. PageTokens - 1
           /\ DivCeil(n, PageTokens) \in Nat /\ q \div PageTokens \in Nat
<1>1. PICK k : k = PageTokens
  OBVIOUS
<1>2. k \in Nat \ {0}
  BY <1>1, PageAssumption
<1>3. q \div k \in Nat /\ q % k \in 0 .. k - 1 /\ q \div k + 1 = (q + k) \div k
  BY <1>2, DivNext
<1>4. q + k \in Nat /\ n + k - 1 \in Nat /\ q + k <= n + k - 1
  BY <1>2
<1>5. (n + k - 1) \div k \in Nat /\ (q + k) \div k <= (n + k - 1) \div k
  BY <1>2, <1>4, DivMono
<1> QED BY <1>1, <1>3, <1>5 DEF DivCeil

\* The first element after a sequence is joined to another.
LEMMA JoinedAt ==
    ASSUME NEW S, NEW x \in Seq(S), NEW y \in Seq(S), Len(y) >= 1
    PROVE  (x \o y)[Len(x) + 1] = y[1]
<1>1. Len(x) \in Nat /\ Len(y) \in Nat
  OBVIOUS
<1>2. Len(x) + 1 \in 1 .. Len(x) + Len(y) /\ Len(x) + 1 - Len(x) = 1
  BY <1>1
<1>3. (x \o y)[Len(x) + 1] = y[Len(x) + 1 - Len(x)]
  BY <1>1, <1>2
<1> QED BY <1>2, <1>3

\* Sequences with a common prefix have its prefixes in common.
LEMMA PrefixOf ==
    ASSUME NEW x \in Seq(Tokens), NEW y \in Seq(Tokens), NEW n \in Nat,
           n <= Len(x), n <= Len(y), SubSeq(x, 1, n) = SubSeq(y, 1, n), NEW m \in 0 .. n
    PROVE  SubSeq(x, 1, m) = SubSeq(y, 1, m)
<1>1. \A i \in 1 .. n : x[i] = y[i]
  <2> SUFFICES ASSUME NEW i \in 1 .. n PROVE x[i] = y[i]
    OBVIOUS
  <2>1. SubSeq(x, 1, n)[i] = x[i] /\ SubSeq(y, 1, n)[i] = y[i]
    OBVIOUS
  <2> QED BY <2>1
<1>2. /\ SubSeq(x, 1, m) \in Seq(Tokens) /\ Len(SubSeq(x, 1, m)) = m
      /\ SubSeq(y, 1, m) \in Seq(Tokens) /\ Len(SubSeq(y, 1, m)) = m
  OBVIOUS
<1>3. \A i \in 1 .. m : SubSeq(x, 1, m)[i] = SubSeq(y, 1, m)[i]
  BY <1>1
<1> QED BY <1>2, <1>3

\* Rows stay when the text agrees on what they hold.
LEMMA HoldsText ==
    ASSUME NEW d, NEW hs, NEW n \in Nat, NEW x \in Seq(Tokens), NEW y \in Seq(Tokens),
           Holds(d, hs, n, x), n <= Len(y), SubSeq(x, 1, n) = SubSeq(y, 1, n)
    PROVE  Holds(d, hs, n, y)
<1>1. n <= Len(x) /\ \A q \in 0 .. n - 1 : RowAt(d, hs, q) = SubSeq(x, 1, q + 1)
  BY DEF Holds
<1>2. \A q \in 0 .. n - 1 : SubSeq(x, 1, q + 1) = SubSeq(y, 1, q + 1)
  BY <1>1, PrefixOf
<1> QED BY <1>1, <1>2 DEF Holds

\* A sequence begins as it did when another is joined to it.
LEMMA PrefixLonger ==
    ASSUME NEW x \in Seq(Tokens), NEW y \in Seq(Tokens), NEW n \in Nat, n <= Len(x)
    PROVE  n <= Len(x \o y) /\ SubSeq(x, 1, n) = SubSeq(x \o y, 1, n)
<1>1. x \o y \in Seq(Tokens) /\ Len(x \o y) = Len(x) + Len(y) /\ n <= Len(x \o y)
  OBVIOUS
<1>2. /\ SubSeq(x, 1, n) \in Seq(Tokens) /\ Len(SubSeq(x, 1, n)) = n
      /\ SubSeq(x \o y, 1, n) \in Seq(Tokens) /\ Len(SubSeq(x \o y, 1, n)) = n
  BY <1>1
<1>3. \A i \in 1 .. n : SubSeq(x, 1, n)[i] = SubSeq(x \o y, 1, n)[i]
  BY <1>1
<1> QED BY <1>1, <1>2, <1>3

\* Rows within a text are not touched by what the text goes on with.
LEMMA HoldsLonger ==
    ASSUME NEW d, NEW hs, NEW n \in Nat, NEW x \in Seq(Tokens), NEW y \in Seq(Tokens),
           n <= Len(x)
    PROVE  Holds(d, hs, n, x) <=> Holds(d, hs, n, x \o y)
<1>1. x \o y \in Seq(Tokens)
  OBVIOUS
<1>2. n <= Len(x \o y) /\ SubSeq(x, 1, n) = SubSeq(x \o y, 1, n)
  BY PrefixLonger
<1>3. Holds(d, hs, n, x) => Holds(d, hs, n, x \o y)
  BY <1>1, <1>2, HoldsText
<1>4. Holds(d, hs, n, x \o y) => Holds(d, hs, n, x)
  BY <1>1, <1>2, HoldsText
<1> QED BY <1>3, <1>4

\* Rows stay when the device pages they are on have the same rows.
LEMMA HoldsPages ==
    ASSUME NEW d, NEW e, NEW hs \in Seq(Handles), NEW n \in Nat, NEW x, Holds(d, hs, n, x),
           DivCeil(n, PageTokens) <= Len(hs),
           \A p \in Indices(hs) : e[p].rows = d[p].rows
    PROVE  Holds(e, hs, n, x)
<1>1. ASSUME NEW q \in 0 .. n - 1
      PROVE  RowAt(e, hs, q) = RowAt(d, hs, q)
  <2>0. q \in Nat /\ q < n
    OBVIOUS
  <2>1. q \div PageTokens + 1 \in 1 .. DivCeil(n, PageTokens) /\ DivCeil(n, PageTokens) \in Nat
    BY <2>0, PlaceIs
  <2>2. q \div PageTokens + 1 \in DOMAIN hs
    BY <2>1
  <2>3. Index(hs[q \div PageTokens + 1]) \in Indices(hs)
    BY <2>2, IndicesIs
  <2> QED BY <2>3 DEF RowAt
<1> QED BY <1>1 DEF Holds

\* The text of a session: its tokens, and a decode step's token after them.
LEMMA TextIs ==
    ASSUME PagedInv, NEW s \in Sessions
    PROVE  /\ Text(s) \in Seq(Tokens) /\ toks[s] \in Seq(Tokens) /\ Len(toks[s]) \in Nat
           /\ ~Decodes => Text(s) = toks[s]
           /\ Decodes /\ s \in Elems(op.rows) =>
                 /\ Text(s) = toks[s] \o op.in[s] /\ op.in[s] \in Seq(Tokens)
                 /\ Len(op.in[s]) = 1 /\ Len(Text(s)) = Len(toks[s]) + 1
           /\ s \notin Elems(op.rows) => Text(s) = toks[s]
<1>1. OpTyped(op) /\ Appending /\ toks[s] \in Seq(Tokens)
  BY DEF PagedInv, OpSound, Typed
<1>2. ASSUME Decodes, s \in Elems(op.rows)
      PROVE  op.in[s] \in Seq(Tokens) /\ Len(op.in[s]) = 1
  BY <1>1, <1>2 DEF OpTyped, Appending, Appends, Decodes
<1>3. ASSUME Decodes, s \in Elems(op.rows)
      PROVE  toks[s] \o op.in[s] \in Seq(Tokens) /\ Len(toks[s] \o op.in[s]) = Len(toks[s]) + 1
  BY <1>1, <1>2, <1>3, OneLong
<1>4. Len(toks[s]) \in Nat
  BY <1>1
<1>5. CASE Decodes /\ s \in Elems(op.rows)
  BY <1>1, <1>2, <1>3, <1>4, <1>5 DEF Text
<1>6. CASE ~(Decodes /\ s \in Elems(op.rows))
  BY <1>1, <1>4, <1>6 DEF Text
<1> QED BY <1>5, <1>6

\* Nothing is appended while no operation runs.
LEMMA RestedRows ==
    ASSUME op' = Idle
    PROVE  /\ PendsHold' /\ Unsettled' /\ Chunk' /\ InText'
           /\ \A s : Text(s)' = toks'[s]
<1>1. op'.kind = "idle" /\ op'.stage = "none" /\ op'.pend = <<>> /\ DOMAIN op'.pend = {}
  BY DEF Idle
<1>2. ~Decodes' /\ ~Prefills' /\ ~Ahead'
  BY <1>1 DEF Decodes, Prefills, Ahead, Working
<1>3. PendsHold'
  BY <1>1 DEF PendsHold
<1>4. Unsettled' /\ Chunk' /\ InText'
  BY <1>2 DEF Unsettled, Chunk, InText
<1>5. \A s : Text(s)' = toks'[s]
  BY <1>2 DEF Text
<1> QED BY <1>3, <1>4, <1>5

\* Before the commit a table has no row of what the step appends.
LEMMA Shortened ==
    ASSUME PagedInv, RowInv, op.stage # "commit", NEW s \in DOMAIN tables
    PROVE  /\ tables[s].len <= Len(toks[s])
           /\ Holds(dev, tables[s].pages, tables[s].len, toks[s])
<1>1. s \in Sessions /\ tables[s].len \in Nat
  BY TableTail DEF Sane, Tables
<1>2. Holds(dev, tables[s].pages, tables[s].len, Text(s))
  BY DEF RowInv, TablesHold
<1>3. Text(s) \in Seq(Tokens) /\ toks[s] \in Seq(Tokens)
  BY <1>1, TextIs
<1>4. CASE Decodes /\ s \in Elems(op.rows)
  <2>1. Text(s) = toks[s] \o op.in[s] /\ op.in[s] \in Seq(Tokens)
    BY <1>1, <1>4, TextIs
  <2>2. tables[s].len <= Len(toks[s])
    BY <1>4 DEF RowInv, Unsettled
  <2> QED BY <1>1, <1>2, <1>3, <2>1, <2>2, HoldsLonger
<1>5. CASE ~(Decodes /\ s \in Elems(op.rows))
  <2>1. Text(s) = toks[s]
    BY <1>1, <1>5, TextIs
  <2> QED BY <1>2, <2>1 DEF Holds
<1> QED BY <1>4, <1>5

\* The retained prefix keeps its rows while device and prefix stay.
LEMMA PrefixStays ==
    ASSUME RowInv, UNCHANGED <<dev, cached>>
    PROVE  PrefixHolds'
<1> QED BY DEF RowInv, PrefixHolds

\* The end of an operation, the text of a session being what the rows were computed from.
LEMMA EndsText ==
    ASSUME PagedInv, RowInv, op' = Idle, UNCHANGED <<dev, tables, cached>>,
           \A s \in Sessions : toks'[s] = Text(s), Recorded', Started'
    PROVE  RowInv'
<1>1. TablesHold'
  <2> SUFFICES ASSUME NEW s \in DOMAIN tables
               PROVE  Holds(dev, tables[s].pages, tables[s].len, Text(s)')
    BY DEF TablesHold
  <2>1. s \in Sessions
    BY TableTail
  <2>2. Text(s)' = Text(s)
    BY <2>1, RestedRows
  <2> QED BY <2>2 DEF RowInv, TablesHold
<1> QED BY <1>1, PrefixStays, RestedRows DEF RowInv

\* The end of an operation that appended nothing.
LEMMA EndsSame ==
    ASSUME PagedInv, RowInv, op.stage # "commit", op' = Idle,
           UNCHANGED <<dev, tables, cached>>, UNCHANGED toks, Recorded', Started'
    PROVE  RowInv'
<1>1. TablesHold'
  <2> SUFFICES ASSUME NEW s \in DOMAIN tables
               PROVE  Holds(dev, tables[s].pages, tables[s].len, Text(s)')
    BY DEF TablesHold
  <2>1. Text(s)' = toks[s]
    BY RestedRows
  <2> QED BY <2>1, Shortened
<1> QED BY <1>1, PrefixStays, RestedRows DEF RowInv

\* The records stay right while records and tokens stay.
LEMMA RecordedStays ==
    ASSUME RowInv, UNCHANGED <<record, toks>>
    PROVE  Recorded'
<1> QED BY DEF RowInv, Recorded

\* A request that fails has neither the phase of a new session nor of an ended one.
LEMMA FailedStarted ==
    ASSUME PagedInv, RowInv, NEW ss, Fail(ss), UNCHANGED <<toks, pos>>,
           \A s \in DOMAIN tables' : s \in DOMAIN tables
    PROVE  Started'
<1>1. \A s \in Sessions : phase'[s] \in {"failed", phase[s]}
  BY DEF Fail
<1>2. \A s \in DOMAIN tables : s \in Sessions
  BY TableTail
<1>3. \A s \in DOMAIN tables' : phase'[s] \notin {"new", "ended"}
  BY <1>1, <1>2 DEF RowInv, Started
<1>4. \A s \in Sessions : phase'[s] = "decode" => pos'[s] = Len(toks'[s])
  BY <1>1 DEF RowInv, Started
<1> QED BY <1>3, <1>4 DEF Started

\* A step of the operation that leaves tables and device alone.
LEMMA StaysRows ==
    ASSUME RowInv, op'.kind = op.kind, op'.rows = op.rows, op'.in = op.in,
           UNCHANGED <<dev, tables, record, cached>>, UNCHANGED sessionVars
    PROVE  /\ TablesHold' /\ PrefixHolds' /\ Recorded' /\ Started'
           /\ \A s : Text(s)' = Text(s)
           /\ Decodes' = Decodes /\ Prefills' = Prefills
<1>1. Decodes' = Decodes /\ Prefills' = Prefills
  BY DEF Decodes, Prefills
<1>2. UNCHANGED <<lease, phase, toks, done, pos, solo>>
  BY DEF sessionVars
<1>3. \A s : Text(s)' = Text(s)
  BY <1>1, <1>2 DEF Text
<1>4. TablesHold'
  BY <1>3 DEF RowInv, TablesHold
<1>5. Recorded' /\ Started'
  BY <1>2 DEF RowInv, Recorded, Started
<1> QED BY <1>1, <1>3, <1>4, <1>5, PrefixStays

\* A new engine has no row, no prefix and no record.
LEMMA EmptyRows ==
    ASSUME FreshEngine
    PROVE  TablesHold' /\ PrefixHolds' /\ Recorded' /\ DOMAIN tables' = {}
<1>1. DOMAIN tables' = {} /\ DOMAIN record' = {} /\ cached' = {}
  BY DEF FreshEngine, NoEntries
<1> QED BY <1>1 DEF TablesHold, PrefixHolds, Recorded

\* Dropping the engine (Teardown) keeps RowInv.
LEMMA TeardownRows ==
    ASSUME PagedInv, RowInv, Teardown
    PROVE  RowInv'
<1>1. PICK ss \in Casualties : Fail(ss)
  BY DEF Teardown
<1>2. FreshEngine /\ op' = Idle /\ UNCHANGED <<toks, pos>>
  BY DEF Teardown
<1>3. DOMAIN tables' = {}
  BY <1>2, EmptyRows
<1>4. Started'
  BY <1>1, <1>2, <1>3, FailedStarted
<1> QED BY <1>2, <1>4, EmptyRows, RestedRows DEF RowInv

\* An operation begins: the sessions that have a table keep their tokens.
LEMMA BeginsRows ==
    ASSUME PagedInv, RowInv, op = Idle, op'.pend = <<>>, op'.stage = "enter",
           UNCHANGED engineVars, \A s \in DOMAIN tables : toks'[s] = toks[s],
           \A s \in Elems(op'.rows) : Decodes' => op'.in[s] \in Seq(Tokens),
           Started', Chunk'
    PROVE  RowInv'
<1>1. UNCHANGED <<dev, tables, record, cached>>
  BY DEF engineVars
<1>2. op.stage # "commit"
  BY DEF Idle
<1>3. TablesHold'
  <2> SUFFICES ASSUME NEW s \in DOMAIN tables
               PROVE  Holds(dev, tables[s].pages, tables[s].len, Text(s)')
    BY <1>1 DEF TablesHold
  <2>1. s \in Sessions /\ tables[s].len \in Nat
    BY TableTail DEF Sane, Tables
  <2>2. toks[s] \in Seq(Tokens)
    BY <2>1, TextIs
  <2>3. tables[s].len <= Len(toks[s]) /\ Holds(dev, tables[s].pages, tables[s].len, toks[s])
    BY <1>2, Shortened
  <2>4. CASE Decodes' /\ s \in Elems(op'.rows)
    <3>1. op'.in[s] \in Seq(Tokens) /\ Text(s)' = toks[s] \o op'.in[s]
      BY <2>4 DEF Text
    <3> QED BY <2>1, <2>2, <2>3, <3>1, HoldsLonger
  <2>5. CASE ~(Decodes' /\ s \in Elems(op'.rows))
    BY <2>3, <2>5 DEF Text
  <2> QED BY <2>4, <2>5
<1>4. Recorded'
  <2>1. \A s \in DOMAIN record : s \in DOMAIN tables
    BY DEF PagedInv, Typed
  <2> QED BY <1>1, <2>1 DEF RowInv, Recorded
<1>5. PendsHold' /\ InText'
  BY DEF PendsHold, InText, Ahead, Working
<1>6. Unsettled'
  BY <1>1, <1>2, Shortened DEF Unsettled
<1> QED BY <1>1, <1>3, <1>4, <1>5, <1>6, PrefixStays DEF RowInv

\* A request's prompt is its own until its job first runs, when it has no table yet.
LEMMA PromptTables ==
    ASSUME PagedInv, RowInv, NEW s \in Sessions, NEW prompt \in PromptOf(s),
           Prefilling(s, prompt), UNCHANGED tables
    PROVE  /\ \A x \in DOMAIN tables : toks'[x] = toks[x]
           /\ Started' /\ toks'[s] = prompt /\ prompt \in Seq(Tokens)
<1>1. /\ toks' = [toks EXCEPT ![s] = prompt] /\ phase' = [phase EXCEPT ![s] = "prefill"]
      /\ UNCHANGED pos
  BY DEF Prefilling
<1>2. toks \in [Sessions -> Seq(Tokens)] /\ phase \in [Sessions -> Phases]
  BY DEF PagedInv, Typed
<1>3. \A x \in DOMAIN tables : x \in Sessions
  BY TableTail
<1>4. \A x \in DOMAIN tables : toks'[x] = toks[x]
  <2>1. CASE phase[s] = "new"
    <3>1. s \notin DOMAIN tables
      BY <2>1 DEF RowInv, Started
    <3> QED BY <1>1, <1>2, <1>3, <3>1
  <2>2. CASE phase[s] # "new"
    <3>1. prompt = toks[s]
      BY <2>2 DEF PromptOf
    <3> QED BY <1>1, <1>2, <1>3, <3>1
  <2> QED BY <2>1, <2>2
<1>5. Started'
  <2>1. \A x \in DOMAIN tables' : phase'[x] \notin {"new", "ended"}
    BY <1>1, <1>2, <1>3 DEF RowInv, Started
  <2>2. \A x \in Sessions : phase'[x] = "decode" => pos'[x] = Len(toks'[x])
    BY <1>1, <1>2 DEF RowInv, Started
  <2> QED BY <2>1, <2>2 DEF Started
<1> QED BY <1>4, <1>5, PromptIs

\* EnterPrefill keeps RowInv.
LEMMA EnterPrefillRows ==
    ASSUME PagedInv, SizeInv, RowInv, NEW s \in Sessions, EnterPrefill(s)
    PROVE  RowInv'
<1>1. PICK prompt \in PromptOf(s) : \E end \in done[s] + 1 .. Len(prompt) :
         /\ Prefilling(s, prompt)
         /\ op' = Begun("prefill", <<s>>, [x \in {s} |-> SubSeq(prompt, done[s] + 1, end)])
  BY DEF EnterPrefill
<1>2. PICK end \in done[s] + 1 .. Len(prompt) :
         /\ Prefilling(s, prompt)
         /\ op' = Begun("prefill", <<s>>, [x \in {s} |-> SubSeq(prompt, done[s] + 1, end)])
  BY <1>1
<1>3. op = Idle /\ UNCHANGED engineVars /\ UNCHANGED tables
  BY DEF EnterPrefill, engineVars
<1>4. /\ \A x \in DOMAIN tables : toks'[x] = toks[x]
      /\ Started' /\ toks'[s] = prompt /\ prompt \in Seq(Tokens)
  BY <1>2, <1>3, PromptTables
<1>5. /\ op'.pend = <<>> /\ op'.stage = "enter" /\ op'.kind = "prefill" /\ op'.rows = <<s>>
      /\ op'.in = [x \in {s} |-> SubSeq(prompt, done[s] + 1, end)]
  BY <1>2 DEF Begun
<1>6. ~Decodes'
  BY <1>5 DEF Decodes
<1>7. Chunk'
  <2>1. done[s] \in Nat /\ UNCHANGED done
    BY <1>2 DEF PagedInv, Typed, Prefilling
  <2>2. PICK y : y = SubSeq(prompt, done[s] + 1, end)
    OBVIOUS
  <2>3. end \in Nat /\ done[s] + 1 <= end /\ end <= Len(prompt)
    BY <1>2, <1>4, <2>1
  <2>4. PICK d : d = done[s]
    OBVIOUS
  <2>5. Len(y) = end - d /\ d + Len(y) = end
    BY <1>4, <2>1, <2>2, <2>3, <2>4
  <2>6. Next1(prompt, d, y)
    BY <2>2, <2>3, <2>4, <2>5 DEF Next1
  <2>7. op'.in[s] = y
    BY <1>5, <2>2
  <2>8. Elems(op'.rows) = {s}
    BY <1>5, OneRow
  <2>9. Next1(toks'[s], done'[s], op'.in[s])
    BY <1>4, <2>1, <2>4, <2>6, <2>7
  <2> QED BY <2>8, <2>9 DEF Chunk
<1> QED BY <1>3, <1>4, <1>5, <1>6, <1>7, BeginsRows

\* EnterAcquire keeps RowInv.
LEMMA EnterAcquireRows ==
    ASSUME PagedInv, SizeInv, RowInv, NEW s \in Sessions, EnterAcquire(s)
    PROVE  RowInv'
<1>1. PICK prompt \in PromptOf(s) : Prefilling(s, prompt)
  BY DEF EnterAcquire
<1>2. op = Idle /\ UNCHANGED engineVars /\ UNCHANGED tables
  BY DEF EnterAcquire, engineVars
<1>3. (\A x \in DOMAIN tables : toks'[x] = toks[x]) /\ Started'
  BY <1>1, <1>2, PromptTables
<1>4. op'.pend = <<>> /\ op'.stage = "enter" /\ op'.kind = "acquire"
  BY DEF EnterAcquire, Begun
<1>5. ~Decodes' /\ Chunk'
  BY <1>4 DEF Decodes, Prefills, Chunk
<1> QED BY <1>2, <1>3, <1>4, <1>5, BeginsRows

\* EnterDecode keeps RowInv.
LEMMA EnterDecodeRows ==
    ASSUME PagedInv, SizeInv, RowInv, NEW s \in Sessions, EnterDecode(s)
    PROVE  RowInv'
<1>1. PICK t \in Tokens : op' = Begun("decode", <<s>>, [x \in {s} |-> <<t>>])
  BY DEF EnterDecode
<1>2. op = Idle /\ UNCHANGED engineVars /\ UNCHANGED <<tables, phase, toks, pos>>
  BY DEF EnterDecode, engineVars
<1>3. /\ op'.pend = <<>> /\ op'.stage = "enter" /\ op'.kind = "decode" /\ op'.rows = <<s>>
      /\ op'.in = [x \in {s} |-> <<t>>]
  BY <1>1 DEF Begun
<1>4. Started' /\ Chunk'
  BY <1>2, <1>3 DEF RowInv, Started, Chunk, Prefills
<1>5. \A x \in Elems(op'.rows) : op'.in[x] \in Seq(Tokens)
  <2>1. <<t>> \in Seq(Tokens)
    OBVIOUS
  <2>2. Elems(op'.rows) = {s} /\ op'.in[s] = <<t>>
    BY <1>3, OneRow
  <2> QED BY <2>1, <2>2
<1> QED BY <1>2, <1>3, <1>4, <1>5, BeginsRows

\* The next token of a text comes next in it.
LEMMA NextToken ==
    ASSUME NEW x \in Seq(Tokens), NEW d \in Nat, d < Len(x), NEW y, y = <<x[d + 1]>>
    PROVE  Next1(x, d, y)
<1>1. PICK e : e = d + 1
  OBVIOUS
<1>2. Len(x) \in Nat /\ e \in 1 .. Len(x) /\ d + 1 <= Len(x)
  BY <1>1
<1>3. x[e] \in Tokens
  BY <1>2
<1>4. y \in Seq(Tokens) /\ Len(y) = 1 /\ y[1] = x[e]
  BY <1>1, <1>3
<1>5. PICK z : z = SubSeq(x, e, e)
  OBVIOUS
<1>6. z \in Seq(Tokens) /\ Len(z) = 1 /\ z[1] = x[e]
  BY <1>2, <1>5
<1>7. \A i \in 1 .. Len(y) : y[i] = z[i]
  BY <1>4, <1>6
<1>8. y = z
  BY <1>4, <1>6, <1>7, SeqEqual
<1> QED BY <1>1, <1>2, <1>4, <1>5, <1>8 DEF Next1

\* EnterBatch keeps RowInv.
LEMMA EnterBatchRows ==
    ASSUME PagedInv, SizeInv, RowInv, NEW ss \in SUBSET Sessions, EnterBatch(ss)
    PROVE  RowInv'
<1>1. /\ op = Idle /\ UNCHANGED engineVars /\ UNCHANGED <<tables, phase, toks, pos, done>>
      /\ Cardinality(ss) >= 2
  BY DEF EnterBatch, engineVars, sessionVars
<1>2. PICK rows \in Orders(ss) :
         \/ /\ \A s \in ss : phase[s] = "prefill"
            /\ op' = Begun("batchPrefill", rows, [s \in ss |-> <<toks[s][done[s] + 1]>>])
         \/ /\ \A s \in ss : phase[s] = "decode" /\ Len(toks[s]) < MaxTokens
            /\ \E in \in [ss -> Tokens] :
                  op' = Begun("batchDecode", rows, [s \in ss |-> <<in[s]>>])
  BY DEF EnterBatch
<1>3. Elems(rows) = ss
  BY <1>1, OrdersAre
<1>4. Started'
  BY <1>1 DEF RowInv, Started
<1>5. CASE /\ \A s \in ss : phase[s] = "prefill"
           /\ op' = Begun("batchPrefill", rows, [s \in ss |-> <<toks[s][done[s] + 1]>>])
  <2>1. /\ op'.pend = <<>> /\ op'.stage = "enter" /\ op'.kind = "batchPrefill" /\ op'.rows = rows
        /\ op'.in = [s \in ss |-> <<toks[s][done[s] + 1]>>]
    BY <1>5 DEF Begun
  <2>2. ~Decodes'
    BY <2>1 DEF Decodes
  <2>3. Chunk'
    <3> SUFFICES ASSUME NEW s \in ss PROVE Next1(toks[s], done[s], op'.in[s])
      BY <1>1, <1>3, <2>1 DEF Chunk
    <3>1. PICK x, d, y : x = toks[s] /\ d = done[s] /\ y = <<x[d + 1]>>
      OBVIOUS
    <3>2. x \in Seq(Tokens) /\ d \in Nat /\ d < Len(x)
      BY <1>5, <3>1 DEF PagedInv, Typed, Going, Progress
    <3>4. Next1(x, d, y)
      BY <3>1, <3>2, NextToken
    <3> QED BY <2>1, <3>1, <3>4
  <2> QED BY <1>1, <1>4, <2>1, <2>2, <2>3, BeginsRows
<1>6. CASE \E in \in [ss -> Tokens] : op' = Begun("batchDecode", rows, [s \in ss |-> <<in[s]>>])
  <2>1. PICK in \in [ss -> Tokens] : op' = Begun("batchDecode", rows, [s \in ss |-> <<in[s]>>])
    BY <1>6
  <2>2. /\ op'.pend = <<>> /\ op'.stage = "enter" /\ op'.kind = "batchDecode" /\ op'.rows = rows
        /\ op'.in = [s \in ss |-> <<in[s]>>]
    BY <2>1 DEF Begun
  <2>3. Chunk'
    BY <2>2 DEF Chunk, Prefills
  <2>4. \A s \in Elems(op'.rows) : op'.in[s] \in Seq(Tokens)
    <3>1. \A s \in ss : <<in[s]>> \in Seq(Tokens)
      BY <2>1
    <3> QED BY <1>3, <2>2, <3>1
  <2> QED BY <1>1, <1>4, <2>2, <2>3, <2>4, BeginsRows
<1> QED BY <1>2, <1>5, <1>6

\* A step taken on the CPU has the text the device would have had.
LEMMA Lengthened ==
    ASSUME PagedInv, RowInv, NEW s \in Sessions, NEW y \in Seq(Tokens), UNCHANGED record,
           \A x \in Sessions : x # s => toks'[x] = toks[x], toks'[s] = toks[s] \o y
    PROVE  Recorded'
<1>1. toks[s] \in Seq(Tokens)
  BY DEF PagedInv, Typed
<1>2. \A x \in DOMAIN record : x \in Sessions
  BY TableTail DEF PagedInv, Typed
<1> SUFFICES ASSUME NEW x \in DOMAIN record
             PROVE  Len(record[x]) <= Len(toks'[x]) /\ record[x] = SubSeq(toks'[x], 1, Len(record[x]))
  BY DEF Recorded
<1>3. Len(record[x]) <= Len(toks[x]) /\ record[x] = SubSeq(toks[x], 1, Len(record[x]))
  BY DEF RowInv, Recorded
<1>4. CASE x # s
  BY <1>2, <1>3, <1>4
<1>5. CASE x = s
  <2>1. PICK a, k, r : a = toks[s] /\ r = record[s] /\ k = Len(r)
    OBVIOUS
  <2>2. a \in Seq(Tokens) /\ k \in Nat /\ k <= Len(a) /\ r = SubSeq(a, 1, k)
    BY <1>1, <1>3, <1>5, <2>1 DEF PagedInv, Typed
  <2>3. k <= Len(a \o y) /\ SubSeq(a, 1, k) = SubSeq(a \o y, 1, k)
    BY <2>2, PrefixLonger
  <2> QED BY <1>5, <2>1, <2>2, <2>3
<1> QED BY <1>4, <1>5

\* Declined keeps RowInv: a step taken on the CPU leaves the rows as they are.
LEMMA DeclinedRows ==
    ASSUME PagedInv, SizeInv, RowInv, Declined, op.kind # "idle", op.stage # "commit",
           UNCHANGED engineVars
    PROVE  RowInv'
<1>1. op' = Idle /\ UNCHANGED <<dev, tables, cached, record>>
  BY DEF Declined, engineVars
<1>2. This \in Sessions /\ This \in Elems(op.rows) /\ (Single => Elems(op.rows) = {This})
  BY ThisIs
<1>3. /\ toks \in [Sessions -> Seq(Tokens)] /\ phase \in [Sessions -> Phases]
      /\ pos \in [Sessions -> Nat] /\ \A s \in DOMAIN tables : s \in Sessions
  BY TableTail DEF PagedInv, Typed
<1>4. CASE op.kind = "prefill" /\ phase' = [phase EXCEPT ![This] = "decode"]
           /\ pos' = [pos EXCEPT ![This] = Len(toks[This])] /\ UNCHANGED toks
  <2>1. \A s \in DOMAIN tables' : phase'[s] \notin {"new", "ended"}
    BY <1>1, <1>2, <1>3, <1>4 DEF RowInv, Started
  <2>2. \A s \in Sessions : phase'[s] = "decode" => pos'[s] = Len(toks'[s])
    BY <1>2, <1>3, <1>4 DEF RowInv, Started
  <2> QED BY <1>1, <1>4, <2>1, <2>2, EndsSame, RecordedStays DEF Started
<1>5. CASE (\E ss : Fail(ss)) /\ UNCHANGED <<toks, pos>>
  <2>1. Started'
    BY <1>1, <1>5, FailedStarted
  <2> QED BY <1>1, <1>5, <2>1, EndsSame, RecordedStays
<1>6. CASE op.kind = "decode" /\ toks' = [toks EXCEPT ![This] = @ \o op.in[This]]
           /\ pos' = [pos EXCEPT ![This] = @ + 1] /\ UNCHANGED phase
  <2>1. Decodes /\ Elems(op.rows) = {This}
    BY <1>2, <1>6 DEF Decodes, Single
  <2>2. /\ Text(This) = toks[This] \o op.in[This] /\ op.in[This] \in Seq(Tokens)
        /\ Len(Text(This)) = Len(toks[This]) + 1 /\ Text(This) \in Seq(Tokens)
    BY <1>2, <2>1, TextIs
  <2>3. toks'[This] = toks[This] \o op.in[This]
    BY <1>2, <1>3, <1>6
  <2>4. \A s \in Sessions : s # This => toks'[s] = toks[s] /\ pos'[s] = pos[s]
    BY <1>3, <1>6
  <2>5. \A s \in Sessions : toks'[s] = Text(s)
    BY <2>1, <2>2, <2>3, <2>4, TextIs
  <2>6. Recorded'
    BY <1>1, <1>2, <2>2, <2>3, <2>4, Lengthened
  <2>7. Started'
    <3>1. phase[This] = "decode"
      BY <1>2, <2>1 DEF SizeInv, InStep
    <3>2. pos'[This] = Len(toks'[This])
      <4>1. pos[This] = Len(toks[This])
        BY <1>2, <3>1 DEF RowInv, Started
      <4>2. pos'[This] = pos[This] + 1
        BY <1>2, <1>3, <1>6
      <4> QED BY <2>2, <2>3, <4>1, <4>2
    <3>3. \A s \in Sessions : phase'[s] = "decode" => pos'[s] = Len(toks'[s])
      BY <1>6, <2>4, <3>2 DEF RowInv, Started
    <3>4. \A s \in DOMAIN tables' : phase'[s] \notin {"new", "ended"}
      BY <1>1, <1>6 DEF RowInv, Started
    <3> QED BY <3>3, <3>4 DEF Started
  <2> QED BY <1>1, <2>5, <2>6, <2>7, EndsText
<1> QED BY <1>4, <1>5, <1>6 DEF Declined

\* Build keeps RowInv.
LEMMA BuildRows ==
    ASSUME PagedInv, SizeInv, RowInv, Build
    PROVE  RowInv'
<1>1. op.stage = "enter" /\ op.kind # "idle" /\ op.pend = <<>>
  BY DEF Build, PagedInv, OpSound, OpShape, OpStages, Idle
<1>2. CASE FreshEngine /\ UNCHANGED sessionVars /\ UNCHANGED op
  <2>1. UNCHANGED <<phase, toks, pos, done>>
    BY <1>2 DEF sessionVars
  <2>2. TablesHold' /\ PrefixHolds' /\ Recorded' /\ DOMAIN tables' = {}
    BY <1>2, EmptyRows
  <2>3. Started' /\ Unsettled'
    BY <2>1, <2>2 DEF RowInv, Started, Unsettled
  <2>4. PendsHold' /\ InText'
    BY <1>1, <1>2 DEF PendsHold, InText, Ahead, Working
  <2>5. Chunk'
    BY <1>2, <2>1 DEF RowInv, Chunk, Prefills
  <2> QED BY <2>2, <2>3, <2>4, <2>5 DEF RowInv
<1>3. CASE Declined /\ UNCHANGED <<up, engineVars, lease>>
  <2>1. UNCHANGED engineVars
    BY <1>3
  <2> QED BY <1>1, <1>3, <2>1, DeclinedRows
<1> QED BY <1>2, <1>3 DEF Build

\* PastThreshold keeps RowInv.
LEMMA PastThresholdRows ==
    ASSUME PagedInv, SizeInv, RowInv, PastThreshold
    PROVE  RowInv'
<1>1. Declined /\ op.kind # "idle" /\ op.stage # "commit" /\ UNCHANGED engineVars
  BY DEF PastThreshold
<1> QED BY <1>1, DeclinedRows

\* A step is refused: its streams fail, no token is taken.
LEMMA FailsRows ==
    ASSUME PagedInv, RowInv, op.stage # "commit", NEW ss, Fail(ss), op' = Idle,
           UNCHANGED engineVars, UNCHANGED <<toks, pos>>
    PROVE  RowInv'
<1>1. UNCHANGED <<dev, tables, cached, record>>
  BY DEF engineVars
<1>2. Started'
  BY <1>1, FailedStarted
<1> QED BY <1>1, <1>2, EndsSame, RecordedStays

\* An operation goes on before anything is planned.
LEMMA GoesOn ==
    ASSUME PagedInv, RowInv, op.stage \in {"enter", "cursor"}, op.pend = <<>>, op.todo = op.rows,
           NEW st \in {"cursor", "prepare"}, op' = [op EXCEPT !.stage = st],
           UNCHANGED <<dev, tables, record, cached>>, UNCHANGED sessionVars,
           st = "prepare" => \A s \in Elems(op.rows) : Next1(Text(s), tables[s].len, op.in[s])
    PROVE  RowInv'
<1>1. /\ op'.stage = st /\ op'.kind = op.kind /\ op'.rows = op.rows /\ op'.in = op.in
      /\ op'.pend = op.pend /\ op'.todo = op.todo
  BY DEF PagedInv, OpSound, OpTyped
<1>2. /\ TablesHold' /\ PrefixHolds' /\ Recorded' /\ Started' /\ \A s : Text(s)' = Text(s)
      /\ Decodes' = Decodes /\ Prefills' = Prefills
  BY <1>1, StaysRows
<1>3. DOMAIN op'.pend = {} /\ PendSeqs' = {}
  BY <1>1 DEF PendSeqs
<1>4. PendsHold'
  BY <1>3 DEF PendsHold
<1>5. Unsettled'
  BY <1>1, <1>2 DEF RowInv, Unsettled, sessionVars
<1>6. Chunk'
  BY <1>1, <1>2 DEF RowInv, Chunk, sessionVars
<1>7. InText'
  <2>1. st # "prepare" => ~Ahead'
    BY <1>1 DEF Ahead, Working
  <2>2. Elems(op'.todo) \cup PendSeqs' = Elems(op.rows)
    BY <1>1, <1>3
  <2> QED BY <1>1, <1>2, <2>1, <2>2 DEF InText
<1> QED BY <1>2, <1>4, <1>5, <1>6, <1>7 DEF RowInv

\* A decode step at its position appends what ends its text.
LEMMA DecodeNext ==
    ASSUME PagedInv, SizeInv, RowInv, Decodes, NEW s \in Elems(op.rows), s \in Sessions,
           tables[s].len = pos[s]
    PROVE  Next1(Text(s), tables[s].len, op.in[s])
<1>1. phase[s] = "decode"
  BY DEF SizeInv, InStep
<1>2. PICK x, y, n : x = toks[s] /\ y = op.in[s] /\ n = tables[s].len
  OBVIOUS
<1>3. n = Len(x)
  BY <1>1, <1>2 DEF RowInv, Started
<1>4. x \in Seq(Tokens) /\ y \in Seq(Tokens) /\ Len(y) = 1 /\ Text(s) = x \o y
  BY <1>2, TextIs
<1>5. PICK z : z = x \o y
  OBVIOUS
<1>6. z \in Seq(Tokens) /\ Len(z) = Len(x) + 1 /\ z[Len(x) + 1] = y[1]
  <2>1. x \o y \in Seq(Tokens) /\ Len(x \o y) = Len(x) + 1
    BY <1>4, OneLong
  <2>2. x \in Seq(Tokens) /\ y \in Seq(Tokens) /\ Len(y) >= 1
    BY <1>4
  <2>3. (x \o y)[Len(x) + 1] = y[1]
    BY <2>2, JoinedAt
  <2> QED BY <1>5, <2>1, <2>3
<1>7. SubSeq(z, n + 1, n + Len(y)) = y
  <2>1. PICK v : v = SubSeq(z, n + 1, n + 1)
    OBVIOUS
  <2>2. n \in Nat
    BY <1>3, <1>4
  <2>3. v \in Seq(Tokens) /\ Len(v) = 1 /\ v[1] = y[1]
    BY <1>3, <1>6, <2>1, <2>2
  <2>4. \A i \in 1 .. 1 : v[i] = y[i]
    BY <2>3
  <2>5. v = y
    BY <1>4, <2>3, <2>4
  <2> QED BY <1>4, <2>1, <2>5
<1>8. n + Len(y) <= Len(z)
  BY <1>3, <1>4, <1>6
<1>9. Next1(z, n, y)
  BY <1>7, <1>8 DEF Next1
<1> QED BY <1>2, <1>4, <1>5, <1>9

\* Select keeps RowInv.
LEMMA SelectRows ==
    ASSUME PagedInv, SizeInv, RowInv, Select
    PROVE  RowInv'
<1>1. op.stage = "enter" /\ Single /\ op.kind # "idle" /\ op.pend = <<>> /\ op.todo = op.rows
  BY DEF Select, Single, PagedInv, OpSound, OpStages
<1>2. PICK s : s = This
  OBVIOUS
<1>3. s \in Sessions /\ Elems(op.rows) = {s}
  BY <1>1, <1>2, ThisIs
<1>4. CASE op' = [op EXCEPT !.stage = "cursor"] /\ UNCHANGED <<up, engineVars, sessionVars>>
  <2>1. UNCHANGED <<dev, tables, record, cached>> /\ UNCHANGED sessionVars
    BY <1>4 DEF engineVars
  <2> QED BY <1>1, <1>4, <2>1, GoesOn
<1>5. CASE Teardown
  BY <1>5, TeardownRows
<1>6. CASE /\ s \notin DOMAIN tables /\ tables' = Put(tables, s, EmptyTable)
           /\ op' = [op EXCEPT !.stage = "cursor"]
           /\ UNCHANGED <<dev, record, cached, phase, toks, done, pos>>
  <2>1. /\ op'.stage = "cursor" /\ op'.kind = op.kind /\ op'.rows = op.rows /\ op'.in = op.in
        /\ op'.pend = <<>> /\ op'.todo = op.todo
    BY <1>1, <1>6 DEF PagedInv, OpSound, OpTyped
  <2>2. Decodes' = Decodes /\ Prefills' = Prefills /\ ~Ahead'
    BY <2>1 DEF Decodes, Prefills, Ahead, Working
  <2>3. \A x : Text(x)' = Text(x)
    BY <1>6, <2>1, <2>2 DEF Text
  <2>4. /\ DOMAIN tables' = DOMAIN tables \cup {s}
        /\ tables'[s].len = 0 /\ \A x \in DOMAIN tables : tables'[x] = tables[x]
    BY <1>6 DEF Put, EmptyTable
  <2>5. TablesHold'
    <3> SUFFICES ASSUME NEW x \in DOMAIN tables'
                 PROVE  Holds(dev, tables'[x].pages, tables'[x].len, Text(x))
      BY <1>6, <2>3 DEF TablesHold
    <3>1. CASE x \in DOMAIN tables
      BY <2>4, <3>1 DEF RowInv, TablesHold
    <3>2. CASE x = s
      <4>1. 0 <= Len(Text(s))
        BY <1>3, TextIs
      <4> QED BY <2>4, <3>2, <4>1 DEF Holds
    <3> QED BY <2>4, <3>1, <3>2
  <2>6. Started'
    <3>1. phase[s] \notin {"new", "ended"}
      BY <1>1, <1>3 DEF SizeInv, InStep, Single, Prefills, Decodes
    <3> QED BY <1>6, <2>4, <3>1 DEF RowInv, Started
  <2>7. Unsettled'
    <3>1. 0 <= Len(toks[s])
      BY <1>3, TextIs
    <3>2. \A x \in Elems(op.rows) \cap DOMAIN tables' : tables'[x].len <= Len(toks[x])
      BY <1>3, <2>4, <3>1
    <3> QED BY <1>6, <2>1, <3>2 DEF Unsettled
  <2>8. PendsHold' /\ InText'
    BY <2>1, <2>2 DEF PendsHold, InText
  <2>9. Chunk'
    BY <1>1, <1>6, <2>1, <2>2 DEF RowInv, Chunk
  <2>10. Recorded'
    BY <1>6, RecordedStays
  <2>11. PrefixHolds'
    BY <1>6, PrefixStays
  <2> QED BY <2>5, <2>6, <2>7, <2>8, <2>9, <2>10, <2>11 DEF RowInv
<1>7. CASE Declined /\ UNCHANGED engineVars
  BY <1>1, <1>7, DeclinedRows
<1> QED BY <1>2, <1>4, <1>5, <1>6, <1>7 DEF Select

\* CheckCursor keeps RowInv.
LEMMA CheckCursorRows ==
    ASSUME PagedInv, SizeInv, RowInv, CheckCursor
    PROVE  RowInv'
<1>1. /\ op.stage = "cursor" /\ Single /\ op.kind # "idle" /\ op.pend = <<>>
      /\ op.todo = op.rows
  <2>1. op.stage = "cursor"
    BY DEF CheckCursor
  <2>2. Single /\ op.pend = <<>> /\ op.todo = op.rows
    BY <2>1 DEF PagedInv, OpSound, OpStages
  <2> QED BY <2>1, <2>2 DEF Single
<1>2. PICK s : s = This
  OBVIOUS
<1>3. s \in Sessions /\ Elems(op.rows) = {s} /\ s \in DOMAIN tables
  BY <1>1, <1>2, ThisIs DEF PagedInv, OpSound, OpStages
<1>4. CASE op.kind = "acquire" /\ op' = Idle /\ UNCHANGED <<up, engineVars, sessionVars>>
  <2>1. UNCHANGED <<dev, tables, cached, record>> /\ UNCHANGED <<toks, phase, pos>>
    BY <1>4 DEF engineVars, sessionVars
  <2>2. Started'
    BY <2>1 DEF RowInv, Started
  <2> QED BY <1>1, <1>4, <2>1, <2>2, EndsSame, RecordedStays
<1>5. CASE /\ op.kind # "acquire"
           /\ tables[s].len = IF op.kind = "decode" THEN pos[s] ELSE done[s]
           /\ op' = [op EXCEPT !.stage = "prepare"]
           /\ UNCHANGED <<up, engineVars, sessionVars>>
  <2>1. UNCHANGED <<dev, tables, record, cached>> /\ UNCHANGED sessionVars
    BY <1>5 DEF engineVars
  <2>2. Next1(Text(s), tables[s].len, op.in[s])
    <3>1. CASE op.kind = "decode"
      BY <1>3, <1>5, <3>1, DecodeNext DEF Decodes
    <3>2. CASE op.kind = "prefill"
      BY <1>1, <1>3, <1>5, <3>2 DEF RowInv, Chunk, Prefills, Text, Decodes
    <3> QED BY <1>1, <1>5, <3>1, <3>2 DEF Single
  <2> QED BY <1>1, <1>3, <1>5, <2>1, <2>2, GoesOn
<1>6. CASE (\E ss \in Casualties : Fail(ss)) /\ op' = Idle
           /\ UNCHANGED <<up, engineVars, lease, toks, done, pos, solo>>
  <2>1. UNCHANGED engineVars /\ UNCHANGED <<toks, pos>>
    BY <1>6
  <2> QED BY <1>1, <1>6, <2>1, FailsRows
<1>7. CASE Declined /\ UNCHANGED <<up, engineVars, lease>>
  <2>1. UNCHANGED engineVars
    BY <1>7
  <2> QED BY <1>1, <1>7, <2>1, DeclinedRows
<1> QED BY <1>2, <1>4, <1>5, <1>6, <1>7 DEF CheckCursor

\* EnterRows keeps RowInv.
LEMMA EnterRowsRows ==
    ASSUME PagedInv, SizeInv, RowInv, EnterRows
    PROVE  RowInv'
<1>1. op.stage = "enter" /\ ~Single /\ op.pend = <<>> /\ op.todo = op.rows
  BY DEF EnterRows, PagedInv, OpSound, OpStages
<1>2. Elems(op.rows) \subseteq Sessions
  BY DEF PagedInv, OpSound, OpTyped, Elems
<1>3. CASE /\ \A s \in Elems(op.rows) :
                 LeaseValid(s) /\ tables[s].len = IF op.kind = "batchDecode" THEN pos[s] ELSE done[s]
           /\ op' = [op EXCEPT !.stage = "prepare"]
           /\ UNCHANGED <<up, engineVars, sessionVars>>
  <2>1. UNCHANGED <<dev, tables, record, cached>> /\ UNCHANGED sessionVars
    BY <1>3 DEF engineVars
  <2>2. ASSUME NEW s \in Elems(op.rows) PROVE Next1(Text(s), tables[s].len, op.in[s])
    <3>1. CASE op.kind = "batchDecode"
      <4>1. s \in Sessions /\ Decodes /\ tables[s].len = pos[s]
        BY <1>2, <1>3, <3>1 DEF Decodes
      <4> QED BY <4>1, DecodeNext
    <3>2. CASE op.kind = "batchPrefill"
      BY <1>1, <1>3, <3>2 DEF RowInv, Chunk, Prefills, Text, Decodes
    <3>3. op.kind \in {"batchPrefill", "batchDecode"}
      <4>1. op.kind \in Kinds /\ op.kind # "idle"
        BY <1>1 DEF PagedInv, OpSound, OpTyped, OpShape, Idle
      <4> QED BY <1>1, <4>1 DEF Kinds, Single
    <3> QED BY <3>1, <3>2, <3>3
  <2> QED BY <1>1, <1>3, <2>1, <2>2, GoesOn
<1>4. CASE Fail(Elems(op.rows)) /\ op' = Idle
           /\ UNCHANGED <<up, engineVars, lease, toks, done, pos, solo>>
  <2>1. UNCHANGED engineVars /\ UNCHANGED <<toks, pos>>
    BY <1>4, SMTT(30)
  <2> QED BY <1>1, <1>4, <2>1, FailsRows
<1> QED BY <1>3, <1>4 DEF EnterRows

\* The rows of the pages ps are what they were.
Kept(d, e, ps) == \A p \in ps : e[p].rows = d[p].rows

\* What is known of a pending append and of the table it goes to.
LEMMA PendPages ==
    ASSUME PagedInv, NEW i \in DOMAIN op.pend, NEW r, r = op.pend[i]
    PROVE  /\ r \in Pending /\ r.pages \in Seq(Handles) /\ r.alloc \in Seq(Handles)
           /\ r.cow \in BOOLEAN /\ r.from \in Nat
           /\ r.seq \in DOMAIN tables /\ r.seq \in Elems(op.rows) /\ r.seq \in Sessions
           /\ Sane(tables[r.seq])
           /\ op.in[r.seq] \in Seq(Tokens) /\ Len(op.in[r.seq]) \in Nat
           /\ r.from = tables[r.seq].len
           /\ r.pages = Own(tables[r.seq], r.cow) \o r.alloc
           /\ Len(r.pages) = DivCeil(r.from + Len(op.in[r.seq]), PageTokens)
           /\ r.cow => tables[r.seq].pages # <<>> /\ r.from % PageTokens # 0
           /\ r.seq \in PendSeqs
<1>1. /\ OpTyped(op) /\ OpStages /\ OpShape /\ PendSound(r) /\ op.pend # <<>>
  BY DEF PagedInv, OpSound, Pends
<1>2. r \in Pending /\ r.seq \in PendSeqs
  <2>1. op.pend \in Seq(Pending)
    BY <1>1 DEF OpTyped
  <2> QED BY <2>1 DEF PendSeqs
<1>3. Working
  BY <1>1 DEF OpTyped, OpShape, OpStages, Working, Stages, Idle
<1>4. r.seq \in Elems(op.rows) /\ r.seq \in DOMAIN tables
  BY <1>1, <1>2, <1>3 DEF OpStages
<1>5. /\ r.pages \in Seq(Handles) /\ r.alloc \in Seq(Handles) /\ r.cow \in BOOLEAN /\ r.from \in Nat
  BY <1>2 DEF Pending
<1>6. r.seq \in Sessions /\ Sane(tables[r.seq])
  BY <1>4, TableTail
<1>7. op.in[r.seq] \in Seq(Tokens)
  BY <1>1, <1>4 DEF OpTyped
<1>8. Len(op.in[r.seq]) \in Nat
  BY <1>7, SMTT(30)
<1>9. /\ r.from = tables[r.seq].len
      /\ r.pages = Own(tables[r.seq], r.cow) \o r.alloc
      /\ r.cow => r.from % PageTokens # 0
  BY <1>1, SMTT(30) DEF PendSound
<1>10. Len(r.pages) = DivCeil(r.from + Len(op.in[r.seq]), PageTokens)
  BY <1>1, SMTT(30) DEF PendSound
<1>11. r.cow => tables[r.seq].pages # <<>>
  BY <1>6, <1>9, TailPage
<1> QED BY <1>2, <1>4, <1>5, <1>6, <1>7, <1>8, <1>9, <1>10, <1>11

\* The pages of an append are the table's or reserved for it.
LEMMA PendIndices ==
    ASSUME PagedInv, NEW i \in DOMAIN op.pend, NEW r, r = op.pend[i], NEW p
    PROVE  /\ p \in Indices(r.pages) <=> p \in Indices(Own(tables[r.seq], r.cow)) \/ p \in Indices(r.alloc)
           /\ p \in Indices(Own(tables[r.seq], r.cow)) => p \in Indices(tables[r.seq].pages)
           /\ r.cow => LastPage(tables[r.seq]) \notin Indices(Own(tables[r.seq], r.cow))
<1>1. PICK t : t = tables[r.seq]
  OBVIOUS
<1>2. /\ r.alloc \in Seq(Handles) /\ r.cow \in BOOLEAN /\ Sane(t)
      /\ r.pages = Own(t, r.cow) \o r.alloc /\ (r.cow => t.pages # <<>>)
  BY <1>1, PendPages
<1>3. t.pages \in Seq(Handles) /\ Distinct(t.pages)
  BY <1>2 DEF Sane, Tables
<1>4. /\ Own(t, r.cow) \in Seq(Handles)
      /\ \A x : x \in Indices(Source(t, r.cow)) <=> r.cow /\ x = LastPage(t)
      /\ \A x : x \in Indices(t.pages) <=> x \in Indices(Own(t, r.cow)) \/ x \in Indices(Source(t, r.cow))
      /\ \A x : ~(x \in Indices(Own(t, r.cow)) /\ x \in Indices(Source(t, r.cow)))
  BY <1>2, <1>3, OwnIs
<1>5. p \in Indices(r.pages) <=> p \in Indices(Own(t, r.cow)) \/ p \in Indices(r.alloc)
  BY <1>2, <1>4, ConcatHandles
<1>6. r.cow => LastPage(t) \notin Indices(Own(t, r.cow))
  BY <1>4
<1> QED BY <1>1, <1>4, <1>5, <1>6

\* A table has its rows as long as the rows of its pages stay.
LEMMA TableRows ==
    ASSUME PagedInv, NEW x \in DOMAIN tables, NEW e, Kept(dev, e, Indices(tables[x].pages)),
           NEW y, Holds(dev, tables[x].pages, tables[x].len, y)
    PROVE  Holds(e, tables[x].pages, tables[x].len, y)
<1>1. /\ tables[x].pages \in Seq(Handles) /\ tables[x].len \in Nat
      /\ Len(tables[x].pages) = DivCeil(tables[x].len, PageTokens)
  BY TableTail DEF Sane, Tables, Fits
<1>2. Len(tables[x].pages) \in Nat
  BY <1>1
<1>3. DivCeil(tables[x].len, PageTokens) <= Len(tables[x].pages)
  BY <1>1, <1>2
<1> QED BY <1>1, <1>3, HoldsPages DEF Kept

\* Tables that stay have their rows as long as their pages keep theirs.
LEMMA TablesStay ==
    ASSUME PagedInv, RowInv, UNCHANGED tables, \A s : Text(s)' = Text(s),
           \A s \in DOMAIN tables : Kept(dev, dev', Indices(tables[s].pages))
    PROVE  TablesHold'
<1> SUFFICES ASSUME NEW s \in DOMAIN tables
             PROVE  Holds(dev', tables[s].pages, tables[s].len, Text(s))
  BY DEF TablesHold
<1>1. Holds(dev, tables[s].pages, tables[s].len, Text(s))
  BY DEF RowInv, TablesHold
<1> QED BY <1>1, TableRows

\* A prefix that stays has its rows as long as its pages keep theirs.
LEMMA PrefixKept ==
    ASSUME PagedInv, RowInv, cached' \subseteq cached,
           \A c \in cached' : Kept(dev, dev', Indices(c.table.pages))
    PROVE  PrefixHolds'
<1> SUFFICES ASSUME NEW c \in cached'
             PROVE  Holds(dev', c.table.pages, c.table.len, c.toks)
  BY DEF PrefixHolds
<1>1. c \in cached /\ Holds(dev, c.table.pages, c.table.len, c.toks)
  BY DEF RowInv, PrefixHolds
<1>2. c.table.pages \in Seq(Handles) /\ c.table.len \in Nat /\ Fits(c.table)
  BY <1>1, StoreFacts DEF PagedInv, Counted
<1>3. Len(c.table.pages) = DivCeil(c.table.len, PageTokens) /\ Len(c.table.pages) \in Nat
  BY <1>2 DEF Fits
<1>4. DivCeil(c.table.len, PageTokens) <= Len(c.table.pages)
  BY <1>3
<1>5. \A p \in Indices(c.table.pages) : dev'[p].rows = dev[p].rows
  BY DEF Kept
<1> QED BY <1>1, <1>2, <1>4, <1>5, HoldsPages

\* What a planned append has.
LEMMA PendStays ==
    ASSUME PagedInv, RowInv, op.stage # "abort", NEW i \in DOMAIN op.pend, NEW r, r = op.pend[i],
           NEW e, Kept(dev, e, Indices(r.pages))
    PROVE  Holds(e, r.pages, Computing(r), Text(r.seq))
<1>1. Holds(dev, r.pages, Computing(r), Text(r.seq))
  BY DEF RowInv, PendsHold
<1>2. /\ r.pages \in Seq(Handles) /\ r.from \in Nat /\ Len(op.in[r.seq]) \in Nat
      /\ Len(r.pages) = DivCeil(r.from + Len(op.in[r.seq]), PageTokens)
  BY PendPages
<1>3. Computing(r) \in Nat /\ Computing(r) <= r.from + Len(op.in[r.seq])
  <2>1. PICK f, l : f = r.from /\ l = Len(op.in[r.seq])
    OBVIOUS
  <2>0. f \in Nat /\ l \in Nat
    BY <1>2, <2>1
  <2>2. f \in Nat /\ l \in Nat /\ f <= f + l /\ f <= f /\ f + l <= f + l /\ f + l \in Nat
    BY <2>0
  <2>3. Computing(r) \in {f, f + l}
    BY <2>1 DEF Computing
  <2> QED BY <2>1, <2>2, <2>3
<1>4. DivCeil(Computing(r), PageTokens) <= Len(r.pages)
  <2>1. PICK a, b, n : a = Computing(r) /\ b = r.from + Len(op.in[r.seq]) /\ n = PageTokens
    OBVIOUS
  <2>2. a \in Nat /\ b \in Nat /\ a <= b /\ n \in Nat \ {0}
    BY <1>2, <1>3, <2>1, PageAssumption
  <2>3. a + n - 1 \in Nat /\ b + n - 1 \in Nat /\ a + n - 1 <= b + n - 1
    BY <2>2
  <2>4. (a + n - 1) \div n <= (b + n - 1) \div n
    BY <2>2, <2>3, DivMono
  <2> QED BY <1>2, <2>1, <2>4 DEF DivCeil
<1>5. \A p \in Indices(r.pages) : e[p].rows = dev[p].rows
  BY DEF Kept
<1> QED BY <1>1, <1>2, <1>3, <1>4, <1>5, HoldsPages

\* Freeing device pages leaves the rows of the other pages.
LEMMA FreedKeeps ==
    ASSUME PagedInv, NEW ps, NEW qs, \A p \in qs : p \in Pages /\ p \notin ps
    PROVE  Kept(dev, Freed(dev, ps), qs)
<1>1. dev \in DevPages
  BY DEF PagedInv, Mirrors
<1> QED BY <1>1, FreedIs DEF Kept

\* Pages of the store are pages.
LEMMA StorePages ==
    ASSUME PagedInv
    PROVE  /\ \A s \in DOMAIN tables : \A p \in Indices(tables[s].pages) : p \in Pages /\ pool.refs[p] > 0
           /\ \A c \in cached : \A p \in Indices(c.table.pages) : p \in Pages /\ pool.refs[p] > 0
           /\ \A i \in DOMAIN op.pend : \A p \in Indices(op.pend[i].alloc) : p \in Pages /\ pool.refs[p] = 1
           /\ \A i \in DOMAIN op.pend : \A p \in Indices(op.pend[i].pages) : p \in Pages /\ pool.refs[p] > 0
<1>1. Store(tables, cached, op.pend) /\ Refers(pool, tables, cached, op.pend)
  BY DEF PagedInv, Counted
<1>2. /\ \A s \in DOMAIN tables : \A p \in Indices(tables[s].pages) : p \in Pages /\ pool.refs[p] > 0
      /\ \A c \in cached : \A p \in Indices(c.table.pages) : p \in Pages /\ pool.refs[p] > 0
      /\ \A i \in DOMAIN op.pend : \A p \in Indices(op.pend[i].alloc) : p \in Pages /\ pool.refs[p] = 1
  BY <1>1, RefFacts
<1>3. ASSUME NEW i \in DOMAIN op.pend, NEW p \in Indices(op.pend[i].pages)
      PROVE  p \in Pages /\ pool.refs[p] > 0
  <2>1. PICK r : r = op.pend[i]
    OBVIOUS
  <2>2. r.seq \in DOMAIN tables
    BY <2>1, PendPages
  <2>3. p \in Indices(tables[r.seq].pages) \/ p \in Indices(r.alloc)
    BY <2>1, PendIndices
  <2>4. CASE p \in Indices(tables[r.seq].pages)
    BY <1>2, <2>2, <2>4
  <2>5. CASE p \in Indices(r.alloc)
    BY <1>2, <2>1, <2>5
  <2> QED BY <2>3, <2>4, <2>5
<1> QED BY <1>2, <1>3

\* The operation is given up before the commit: nothing has been appended.
LEMMA AbortsRows ==
    ASSUME PagedInv, RowInv, op.stage # "commit", NEW e,
           op' = [op EXCEPT !.stage = "abort", !.err = e],
           UNCHANGED <<dev, tables, record, cached>>, UNCHANGED sessionVars
    PROVE  RowInv'
<1>1. op'.stage = "abort" /\ op'.kind = op.kind /\ op'.rows = op.rows /\ op'.in = op.in
  BY DEF PagedInv, OpSound, OpTyped
<1>2. /\ TablesHold' /\ PrefixHolds' /\ Recorded' /\ Started'
      /\ Decodes' = Decodes /\ Prefills' = Prefills
  BY <1>1, StaysRows
<1>3. Unsettled'
  BY <1>2, Shortened DEF Unsettled, sessionVars
<1>4. PendsHold' /\ Chunk' /\ InText'
  BY <1>1 DEF PendsHold, Chunk, InText, Ahead
<1> QED BY <1>2, <1>3, <1>4 DEF RowInv

\* DeviceFails keeps RowInv.
LEMMA DeviceFailsRows ==
    ASSUME PagedInv, RowInv, DeviceFails
    PROVE  RowInv'
<1>1. PICK e : e = "device"
  OBVIOUS
<1>2. op.stage # "commit" /\ op' = [op EXCEPT !.stage = "abort", !.err = e]
  BY <1>1 DEF DeviceFails
<1>3. UNCHANGED <<dev, tables, record, cached>> /\ UNCHANGED sessionVars
  BY DEF DeviceFails
<1> QED BY <1>2, <1>3, AbortsRows, ZenonT(30)

\* PoolExhausted keeps RowInv.
LEMMA PoolExhaustedRows ==
    ASSUME PagedInv, RowInv, PoolExhausted
    PROVE  RowInv'
<1>1. PICK e : e = "capacity"
  OBVIOUS
<1>2. op.stage # "commit" /\ op' = [op EXCEPT !.stage = "abort", !.err = e]
  BY <1>1 DEF PoolExhausted
<1>3. UNCHANGED <<dev, tables, record, cached>> /\ UNCHANGED sessionVars
  BY DEF PoolExhausted
<1> QED BY <1>2, <1>3, AbortsRows, ZenonT(30)

\* KernelFails keeps RowInv.
LEMMA KernelFailsRows ==
    ASSUME PagedInv, RowInv, KernelFails
    PROVE  RowInv'
<1>1. PICK e : e = IF OutOfRange THEN "position" ELSE "kernel"
  OBVIOUS
<1>2. op.stage # "commit" /\ op' = [op EXCEPT !.stage = "abort", !.err = e]
  BY <1>1 DEF KernelFails
<1>3. UNCHANGED <<dev, tables, record, cached>> /\ UNCHANGED sessionVars
  BY DEF KernelFails, engineVars
<1> QED BY <1>2, <1>3, AbortsRows, ZenonT(30)

\* The prefix's pages that leave the device are nobody else's.
LEMMA EvictPrefixRows ==
    ASSUME PagedInv, RowInv, EvictPrefix
    PROVE  RowInv'
<1>1. PICK q : q = Exhausted(pool)
  OBVIOUS
<1>2. PICK c \in cached :
         /\ op.stage = "prepare"
         /\ dev' = Freed(dev, Exclusive(q, c.table.pages))
         /\ cached' = {}
         /\ UNCHANGED <<tables, record, op>> /\ UNCHANGED sessionVars
  BY <1>1 DEF EvictPrefix, Evictable
<1>3. \A p \in Pages : q.refs[p] = pool.refs[p]
  BY <1>1, ExhaustedIs
<1>4. Store(tables, cached, op.pend) /\ Refers(pool, tables, cached, op.pend)
  BY DEF PagedInv, Counted
<1>5. ASSUME NEW p \in Exclusive(q, c.table.pages), p \in Pages
      PROVE  p \in Indices(c.table.pages) /\ pool.refs[p] = 1
  BY <1>3, <1>5 DEF Exclusive
<1>6. ASSUME NEW s \in DOMAIN tables, NEW p \in Indices(tables[s].pages)
      PROVE  p \in Pages /\ p \notin Exclusive(q, c.table.pages)
  <2>1. p \in Pages
    BY StorePages
  <2>2. pool.refs[p] = 1 => p \notin Indices(c.table.pages)
    BY <1>4, TableFacts
  <2> QED BY <1>5, <2>1, <2>2
<1>7. ASSUME NEW i \in DOMAIN op.pend, NEW p \in Indices(op.pend[i].pages)
      PROVE  p \in Pages /\ p \notin Exclusive(q, c.table.pages)
  <2>1. PICK r : r = op.pend[i]
    OBVIOUS
  <2>2. r.seq \in DOMAIN tables
    BY <2>1, PendPages
  <2>3. p \in Indices(tables[r.seq].pages) \/ p \in Indices(r.alloc)
    BY <2>1, PendIndices
  <2>4. CASE p \in Indices(tables[r.seq].pages)
    BY <1>6, <2>2, <2>4
  <2>5. CASE p \in Indices(r.alloc)
    <3>1. p \in Pages /\ p \notin Indices(c.table.pages)
      BY <1>4, <2>1, <2>5, AllocFacts
    <3> QED BY <1>5, <3>1
  <2> QED BY <2>3, <2>4, <2>5
<1>8. UNCHANGED <<lease, phase, toks, done, pos, solo>>
  BY <1>2 DEF sessionVars
<1>9. /\ \A s : Text(s)' = Text(s)
      /\ Decodes' = Decodes /\ Prefills' = Prefills /\ Ahead' = Ahead /\ PendSeqs' = PendSeqs
  BY <1>2, <1>8 DEF Text, Decodes, Prefills, Ahead, Working, PendSeqs
<1>10. TablesHold'
  <2>1. \A s \in DOMAIN tables : Kept(dev, dev', Indices(tables[s].pages))
    BY <1>2, <1>6, FreedKeeps
  <2> QED BY <1>2, <1>9, <2>1, TablesStay
<1>11. PrefixHolds'
  BY <1>2 DEF PrefixHolds
<1>12. PendsHold'
  <2> SUFFICES ASSUME NEW i \in DOMAIN op.pend, NEW r, r = op.pend[i], NEW s, s = r.seq
               PROVE  Holds(dev', r.pages, Computing(r)', Text(s)')
    BY <1>2 DEF PendsHold
  <2>1. Kept(dev, dev', Indices(r.pages))
    BY <1>2, <1>7, FreedKeeps
  <2>2. Holds(dev', r.pages, Computing(r), Text(s))
    BY <1>2, <2>1, PendStays
  <2>3. Computing(r)' = Computing(r)
    BY <1>2 DEF Computing
  <2> QED BY <1>9, <2>2, <2>3
<1>13. Recorded' /\ Started'
  BY <1>2, <1>8 DEF RowInv, Recorded, Started
<1>14. Unsettled'
  BY <1>2, <1>8, <1>9 DEF RowInv, Unsettled
<1>15. Chunk' /\ InText'
  BY <1>2, <1>8, <1>9 DEF RowInv, Chunk, InText
<1> QED BY <1>10, <1>11, <1>12, <1>13, <1>14, <1>15 DEF RowInv

\* Nor are the pages that were reserved for a row that is given up.
LEMMA AbortRowRows ==
    ASSUME PagedInv, RowInv, AbortRow
    PROVE  RowInv'
<1>1. PICK hs, E : hs = op.pend[Len(op.pend)].alloc /\ E = SubSeq(op.pend, 1, Len(op.pend) - 1)
  OBVIOUS
<1>2. /\ op.stage = "abort" /\ op.pend # <<>>
      /\ dev' = Freed(dev, Indices(hs))
      /\ op' = [op EXCEPT !.pend = E]
      /\ UNCHANGED <<tables, record, cached>> /\ UNCHANGED sessionVars
  BY <1>1 DEF AbortRow
<1>3. op'.stage = "abort" /\ op'.kind = op.kind /\ op'.rows = op.rows /\ op'.in = op.in
  BY <1>2 DEF PagedInv, OpSound, OpTyped
<1>4. UNCHANGED <<lease, phase, toks, done, pos, solo>>
  BY <1>2 DEF sessionVars
<1>5. /\ \A s : Text(s)' = Text(s)
      /\ Decodes' = Decodes /\ Prefills' = Prefills
  BY <1>3, <1>4 DEF Text, Decodes, Prefills
<1>6. PICK n : n = Len(op.pend) /\ n \in DOMAIN op.pend
  <2>1. op.pend \in Seq(Pending)
    BY DEF PagedInv, OpSound, OpTyped
  <2> QED BY <1>2, <2>1, EmptySeq
<1>7. Store(tables, cached, op.pend) /\ Refers(pool, tables, cached, op.pend)
  BY DEF PagedInv, Counted
<1>8. ASSUME NEW p \in Indices(hs)
      PROVE  /\ \A s \in DOMAIN tables : p \notin Indices(tables[s].pages)
             /\ \A c \in cached : p \notin Indices(c.table.pages)
  <2>1. p \in Indices(op.pend[n].alloc)
    BY <1>1, <1>6
  <2> QED BY <1>6, <1>7, <2>1, AllocFacts
<1>9. TablesHold'
  <2>1. \A s \in DOMAIN tables : Kept(dev, dev', Indices(tables[s].pages))
    BY <1>2, <1>8, StorePages, FreedKeeps
  <2> QED BY <1>2, <1>5, <2>1, TablesStay
<1>10. PrefixHolds'
  <2>1. \A c \in cached : Kept(dev, dev', Indices(c.table.pages))
    BY <1>2, <1>8, StorePages, FreedKeeps
  <2> QED BY <1>2, <2>1, PrefixKept
<1>11. Recorded' /\ Started'
  BY <1>2, <1>4 DEF RowInv, Recorded, Started
<1>12. Unsettled'
  BY <1>2, <1>3, <1>4, <1>5, Shortened DEF Unsettled
<1>13. PendsHold' /\ Chunk' /\ InText'
  BY <1>3 DEF PendsHold, Chunk, InText, Ahead
<1> QED BY <1>9, <1>10, <1>11, <1>12, <1>13 DEF RowInv

\* ReleaseFails keeps RowInv.
LEMMA ReleaseFailsRows ==
    ASSUME PagedInv, RowInv, ReleaseFails
    PROVE  RowInv'
BY TeardownRows DEF ReleaseFails

\* EndAbort keeps RowInv.
LEMMA EndAbortRows ==
    ASSUME PagedInv, RowInv, EndAbort
    PROVE  RowInv'
<1>1. op.stage # "commit"
  BY DEF EndAbort
<1>2. CASE op' = Idle /\ UNCHANGED engineVars /\ UNCHANGED <<phase, toks, pos>>
  <2>1. UNCHANGED <<dev, tables, cached, record>>
    BY <1>2 DEF engineVars
  <2>2. Started'
    BY <1>2, <2>1 DEF RowInv, Started
  <2> QED BY <1>1, <1>2, <2>1, <2>2, EndsSame, RecordedStays
<1>3. CASE Teardown
  BY <1>3, TeardownRows
<1> QED BY <1>2, <1>3 DEF EndAbort

\* A sequence is the prefix of itself that has its length.
LEMMA WholeSeq ==
    ASSUME NEW x \in Seq(Tokens)
    PROVE  SubSeq(x, 1, Len(x)) = x /\ Len(x) \in Nat
<1>1. Len(x) \in Nat /\ SubSeq(x, 1, Len(x)) \in Seq(Tokens) /\ Len(SubSeq(x, 1, Len(x))) = Len(x)
  OBVIOUS
<1>2. \A i \in 1 .. Len(x) : SubSeq(x, 1, Len(x))[i] = x[i]
  OBVIOUS
<1> QED BY <1>1, <1>2

\* The end of a prefill chunk keeps RowInv: the record it makes is the prompt.
LEMMA FinishPrefillRows ==
    ASSUME PagedInv, SizeInv, RowInv, Finish, FinishPrefill
    PROVE  RowInv'
<1>1. /\ op.stage = "commit" /\ op.pend = <<>> /\ This \in Sessions /\ This \in Elems(op.rows)
      /\ op' = Idle /\ UNCHANGED <<dev, tables, cached>>
  BY Finishes
<1>2. PICK s, e : s = This /\ e = tables[s].len
  OBVIOUS
<1>3. /\ op.kind = "prefill" /\ UNCHANGED toks
      /\ record' \in {Put(record, s, toks[s]), record}
      /\ \/ phase' = [phase EXCEPT ![s] = "decode"] /\ pos' = [pos EXCEPT ![s] = e]
            /\ e = Len(toks[s])
         \/ Fail({s}) /\ pos' = pos
         \/ UNCHANGED <<phase, pos>>
  BY <1>2 DEF FinishPrefill
<1>4. /\ toks \in [Sessions -> Seq(Tokens)] /\ phase \in [Sessions -> Phases]
      /\ pos \in [Sessions -> Nat] /\ \A x \in DOMAIN tables : x \in Sessions
  BY TableTail DEF PagedInv, Typed
<1>5. \A x \in Sessions : toks'[x] = Text(x)
  <2>1. ~Decodes
    BY <1>3 DEF Decodes
  <2> QED BY <1>3, <2>1, TextIs
<1>6. Recorded'
  <2>1. CASE record' = record
    BY <1>3, <2>1, RecordedStays
  <2>2. CASE record' = Put(record, s, toks[s])
    <3>1. DOMAIN record' = DOMAIN record \cup {s} /\ record'[s] = toks[s]
          /\ \A x \in DOMAIN record : x # s => record'[x] = record[x]
      BY <2>2 DEF Put
    <3>2. \A x \in DOMAIN record : x # s =>
             Len(record'[x]) <= Len(toks'[x]) /\ record'[x] = SubSeq(toks'[x], 1, Len(record'[x]))
      BY <1>3, <3>1 DEF RowInv, Recorded
    <3>3. Len(record'[s]) <= Len(toks'[s]) /\ record'[s] = SubSeq(toks'[s], 1, Len(record'[s]))
      BY <1>1, <1>2, <1>3, <1>4, <3>1, WholeSeq
    <3> QED BY <3>1, <3>2, <3>3 DEF Recorded
  <2> QED BY <1>3, <2>1, <2>2
<1>7. Started'
  <2>1. CASE phase' = [phase EXCEPT ![s] = "decode"] /\ pos' = [pos EXCEPT ![s] = e]
             /\ e = Len(toks[s])
    <3>1. \A x \in DOMAIN tables' : phase'[x] \notin {"new", "ended"}
      BY <1>1, <1>2, <1>4, <2>1 DEF RowInv, Started
    <3>2. \A x \in Sessions : phase'[x] = "decode" => pos'[x] = Len(toks'[x])
      BY <1>1, <1>2, <1>3, <1>4, <2>1 DEF RowInv, Started
    <3> QED BY <3>1, <3>2 DEF Started
  <2>2. CASE Fail({s}) /\ pos' = pos
    BY <1>1, <1>3, <2>2, FailedStarted
  <2>3. CASE UNCHANGED <<phase, pos>>
    BY <1>1, <1>3, <2>3 DEF RowInv, Started
  <2> QED BY <1>3, <2>1, <2>2, <2>3
<1> QED BY <1>1, <1>5, <1>6, <1>7, EndsText

\* The end of a decode step of one stream or of several.
LEMMA DecodedRows ==
    ASSUME PagedInv, SizeInv, RowInv, Finish, Decodes, UNCHANGED phase,
           \A s \in Elems(op.rows) : toks'[s] = toks[s] \o op.in[s] /\ pos'[s] = pos[s] + 1,
           \A s \in Sessions : s \notin Elems(op.rows) => toks'[s] = toks[s] /\ pos'[s] = pos[s]
    PROVE  Started' /\ \A s \in Sessions : toks'[s] = Text(s)
<1>1. UNCHANGED tables
  BY Finishes
<1>2. ASSUME NEW s \in Sessions
      PROVE  toks'[s] = Text(s)
  BY TextIs
<1>3. ASSUME NEW s \in Sessions, phase'[s] = "decode"
      PROVE  pos'[s] = Len(toks'[s])
  <2>1. pos[s] = Len(toks[s])
    BY <1>3 DEF RowInv, Started
  <2>2. CASE s \in Elems(op.rows)
    <3>1. Len(Text(s)) = Len(toks[s]) + 1
      BY <2>2, TextIs
    <3> QED BY <1>2, <2>1, <2>2, <3>1
  <2>3. CASE s \notin Elems(op.rows)
    BY <2>1, <2>3
  <2> QED BY <2>2, <2>3
<1>4. \A s \in DOMAIN tables' : phase'[s] \notin {"new", "ended"}
  BY <1>1 DEF RowInv, Started
<1> QED BY <1>2, <1>3, <1>4 DEF Started

\* A record that ends where the step began goes on with the step's token.
LEMMA FinishDecodeRows ==
    ASSUME PagedInv, SizeInv, RowInv, Finish, FinishDecode
    PROVE  RowInv'
<1>1. /\ op.stage = "commit" /\ op.pend = <<>> /\ This \in Sessions /\ This \in Elems(op.rows)
      /\ op' = Idle /\ UNCHANGED <<dev, tables, cached>>
  BY Finishes
<1>2. PICK s, y : s = This /\ y = op.in[s]
  OBVIOUS
<1>3. /\ op.kind = "decode" /\ UNCHANGED phase
      /\ (record' = [record EXCEPT ![s] = @ \o y] /\ RecordGrows(s)) \/ record' = record
      /\ toks' = [toks EXCEPT ![s] = @ \o y] /\ pos' = [pos EXCEPT ![s] = @ + 1]
  BY <1>2 DEF FinishDecode
<1>4. /\ toks \in [Sessions -> Seq(Tokens)] /\ record \in [DOMAIN record -> Seq(Tokens)]
      /\ pos \in [Sessions -> Nat] /\ \A x \in DOMAIN record : x \in DOMAIN tables
  BY DEF PagedInv, Typed
<1>5. Decodes /\ Single /\ Elems(op.rows) = {s} /\ op.kind # "idle" /\ s \in Sessions
  BY <1>1, <1>2, <1>3, ThisIs DEF Decodes, Single
<1>6. toks'[s] = toks[s] \o y /\ pos'[s] = pos[s] + 1
  BY <1>3, <1>4, <1>5
<1>7. \A x \in Sessions : x # s => toks'[x] = toks[x] /\ pos'[x] = pos[x]
  BY <1>3, <1>4
<1>8. Started' /\ \A x \in Sessions : toks'[x] = Text(x)
  BY <1>2, <1>3, <1>5, <1>6, <1>7, DecodedRows
<1>9. y \in Seq(Tokens)
  BY <1>2, <1>5, TextIs
<1>10. Recorded'
  <2>1. CASE record' = record
    BY <1>5, <1>6, <1>7, <1>9, <2>1, Lengthened
  <2>2. CASE record' = [record EXCEPT ![s] = @ \o y] /\ RecordGrows(s)
    <3>1. s \in DOMAIN record /\ Len(record[s]) = pos[s]
      BY <2>2 DEF RecordGrows
    <3>2. pos[s] = Len(toks[s])
      BY <1>5 DEF SizeInv, InStep, RowInv, Started
    <3>3. record[s] = SubSeq(toks[s], 1, Len(toks[s]))
      BY <3>1, <3>2 DEF RowInv, Recorded
    <3>4. record[s] = toks[s]
      BY <1>4, <1>5, <3>3, WholeSeq
    <3>5. DOMAIN record' = DOMAIN record /\ record'[s] = toks'[s]
          /\ \A x \in DOMAIN record : x # s => record'[x] = record[x]
      BY <1>4, <1>6, <2>2, <3>1, <3>4
    <3>6. toks'[s] \in Seq(Tokens)
      BY <1>5, <1>8, TextIs
    <3>7. Len(record'[s]) <= Len(toks'[s]) /\ record'[s] = SubSeq(toks'[s], 1, Len(record'[s]))
      BY <3>5, <3>6, WholeSeq
    <3>8. \A x \in DOMAIN record : x \in Sessions
      BY <1>4, TableTail
    <3>9. \A x \in DOMAIN record : x # s =>
             Len(record'[x]) <= Len(toks'[x]) /\ record'[x] = SubSeq(toks'[x], 1, Len(record'[x]))
      BY <1>7, <3>5, <3>8 DEF RowInv, Recorded
    <3> QED BY <3>5, <3>7, <3>9 DEF Recorded
  <2> QED BY <1>3, <2>1, <2>2
<1> QED BY <1>1, <1>8, <1>10, EndsText

\* The end of a batch keeps RowInv.
LEMMA FinishBatchRows ==
    ASSUME PagedInv, SizeInv, RowInv, Finish, FinishBatch
    PROVE  RowInv'
<1>1. /\ op.stage = "commit" /\ op.pend = <<>>
      /\ op' = Idle /\ UNCHANGED <<dev, tables, cached>>
  BY Finishes
<1>2. /\ toks \in [Sessions -> Seq(Tokens)] /\ \A x \in DOMAIN tables : x \in Sessions
      /\ \A x \in DOMAIN record : x \in DOMAIN tables
  BY TableTail DEF PagedInv, Typed
<1>3. Elems(op.rows) \subseteq Sessions
  BY DEF PagedInv, OpSound, OpTyped, Elems
<1>4. CASE /\ op.kind = "batchDecode"
           /\ toks' = [s \in Sessions |-> IF s \in Elems(op.rows)
                                          THEN toks[s] \o op.in[s] ELSE toks[s]]
           /\ pos' = [s \in Sessions |-> IF s \in Elems(op.rows)
                                         THEN pos[s] + 1 ELSE pos[s]]
           /\ UNCHANGED <<record, phase, done>>
  <2>1. Decodes
    BY <1>4 DEF Decodes
  <2>2. \A s \in Elems(op.rows) : toks'[s] = toks[s] \o op.in[s] /\ pos'[s] = pos[s] + 1
    BY <1>3, <1>4
  <2>3. \A s \in Sessions : s \notin Elems(op.rows) => toks'[s] = toks[s] /\ pos'[s] = pos[s]
    BY <1>4
  <2>4. Started' /\ \A s \in Sessions : toks'[s] = Text(s)
    BY <1>4, <2>1, <2>2, <2>3, DecodedRows
  <2>5. Recorded'
    <3> SUFFICES ASSUME NEW x \in DOMAIN record, NEW k, NEW r, r = record[x], k = Len(r)
                 PROVE  k <= Len(toks'[x]) /\ r = SubSeq(toks'[x], 1, k)
      BY <1>4, ZenonT(60) DEF Recorded
    <3>1. x \in Sessions /\ toks[x] \in Seq(Tokens) /\ r \in Seq(Tokens)
      BY <1>2 DEF PagedInv, Typed
    <3>2. k \in Nat /\ k <= Len(toks[x]) /\ r = SubSeq(toks[x], 1, k)
      BY <3>1 DEF RowInv, Recorded
    <3>3. CASE x \in Elems(op.rows)
      <4>1. PICK a, b : a = toks[x] /\ b = op.in[x]
        OBVIOUS
      <4>2. b \in Seq(Tokens) /\ toks'[x] = a \o b /\ a \in Seq(Tokens)
        BY <2>1, <2>2, <3>1, <3>3, <4>1, TextIs
      <4>3. k <= Len(a \o b) /\ SubSeq(a, 1, k) = SubSeq(a \o b, 1, k)
        BY <3>2, <4>1, <4>2, PrefixLonger
      <4> QED BY <3>2, <4>1, <4>2, <4>3
    <3>4. CASE x \notin Elems(op.rows)
      BY <2>3, <3>1, <3>2, <3>4
    <3> QED BY <3>3, <3>4
  <2> QED BY <1>1, <2>4, <2>5, EndsText
<1>5. CASE /\ op.kind = "batchPrefill" /\ UNCHANGED <<record, toks>>
           /\ \E E : /\ E = {s \in Elems(op.rows) : tables[s].len = Len(toks[s])}
                     /\ phase' = [s \in Sessions |-> IF s \in E THEN "decode" ELSE phase[s]]
                     /\ pos' = [s \in Sessions |-> IF s \in E THEN tables[s].len ELSE pos[s]]
  <2>1. PICK E : /\ E = {s \in Elems(op.rows) : tables[s].len = Len(toks[s])}
                 /\ phase' = [s \in Sessions |-> IF s \in E THEN "decode" ELSE phase[s]]
                 /\ pos' = [s \in Sessions |-> IF s \in E THEN tables[s].len ELSE pos[s]]
    BY <1>5
  <2>2. ~Decodes
    BY <1>5 DEF Decodes
  <2>3. \A s \in Sessions : toks'[s] = Text(s)
    BY <1>5, <2>2, TextIs
  <2>4. \A s \in DOMAIN tables' : phase'[s] \notin {"new", "ended"}
    BY <1>1, <1>2, <2>1 DEF RowInv, Started
  <2>5. \A s \in Sessions : phase'[s] = "decode" => pos'[s] = Len(toks'[s])
    BY <1>5, <2>1 DEF RowInv, Started
  <2> QED BY <1>1, <1>5, <2>3, <2>4, <2>5, EndsText, RecordedStays DEF Started
<1> QED BY <1>4, <1>5 DEF FinishBatch

\* Finish keeps RowInv.
LEMMA FinishRows ==
    ASSUME PagedInv, SizeInv, RowInv, Finish
    PROVE  RowInv'
BY FinishPrefillRows, FinishDecodeRows, FinishBatchRows DEF Finish

\* A session that goes takes its tokens with it.
LEMMA GoneRows ==
    ASSUME PagedInv, RowInv, NEW s \in Sessions, Gone(s),
           \A x \in DOMAIN tables' : x # s /\ x \in DOMAIN tables
    PROVE  /\ Started' /\ \A x \in Sessions : x # s => toks'[x] = toks[x]
           /\ UNCHANGED record => Recorded' \/ s \in DOMAIN record
<1>1. /\ toks \in [Sessions -> Seq(Tokens)] /\ phase \in [Sessions -> Phases]
      /\ pos \in [Sessions -> Nat] /\ \A x \in DOMAIN tables : x \in Sessions
      /\ \A x \in DOMAIN record : x \in DOMAIN tables
  BY TableTail DEF PagedInv, Typed
<1>2. /\ phase' = [phase EXCEPT ![s] = "ended"] /\ toks' = [toks EXCEPT ![s] = <<>>]
      /\ pos' = [pos EXCEPT ![s] = 0]
  BY DEF Gone
<1>3. \A x \in Sessions : x # s => toks'[x] = toks[x] /\ phase'[x] = phase[x] /\ pos'[x] = pos[x]
  BY <1>1, <1>2
<1>4. phase'[s] = "ended"
  BY <1>1, <1>2
<1>5. \A x \in DOMAIN tables' : phase'[x] \notin {"new", "ended"}
  BY <1>1, <1>3 DEF RowInv, Started
<1>6. \A x \in Sessions : phase'[x] = "decode" => pos'[x] = Len(toks'[x])
  BY <1>3, <1>4 DEF RowInv, Started
<1>7. UNCHANGED record /\ s \notin DOMAIN record => Recorded'
  BY <1>1, <1>3 DEF RowInv, Recorded
<1> QED BY <1>3, <1>5, <1>6, <1>7 DEF Started

\* Nothing runs while a session is dropped.
LEMMA IdleRows ==
    ASSUME op = Idle, op' = op
    PROVE  /\ op' = Idle /\ op.stage # "commit"
           /\ PendsHold' /\ Unsettled' /\ Chunk' /\ InText'
           /\ \A x : Text(x)' = toks'[x] /\ Text(x) = toks[x]
<1>1. op' = Idle /\ op.stage # "commit"
  BY DEF Idle
<1>2. PendsHold' /\ Unsettled' /\ Chunk' /\ InText' /\ \A s : Text(s)' = toks'[s]
  BY <1>1, RestedRows
<1>3. \A x : Text(x) = toks[x]
  BY DEF Idle, Text, Decodes
<1> QED BY <1>1, <1>2, <1>3

\* A session without a valid lease goes: no row is touched.
LEMMA DropStaleRows ==
    ASSUME PagedInv, RowInv, NEW s \in Sessions, op = Idle, op' = op, Gone(s),
           ~(up /\ LeaseValid(s)), UNCHANGED engineVars
    PROVE  RowInv'
<1>1. UNCHANGED <<dev, tables, cached, record>>
  BY DEF engineVars
<1>2. s \notin DOMAIN tables
  BY DEF PagedInv, Seated
<1>3. Started' /\ \A x \in Sessions : x # s => toks'[x] = toks[x]
  BY <1>1, <1>2, GoneRows
<1>4. Recorded'
  BY <1>1, <1>2, GoneRows DEF PagedInv, Typed
<1>5. TablesHold'
  <2> SUFFICES ASSUME NEW x \in DOMAIN tables
               PROVE  Holds(dev, tables[x].pages, tables[x].len, Text(x)')
    BY <1>1 DEF TablesHold
  <2>1. x \in Sessions /\ x # s
    BY <1>2, TableTail
  <2>2. Text(x)' = toks[x]
    BY <1>3, <2>1, IdleRows
  <2> QED BY <2>2, IdleRows, Shortened
<1> QED BY <1>1, <1>3, <1>4, <1>5, IdleRows, PrefixStays DEF RowInv

\* A session goes and a device page cannot be released: the engine is dropped.
LEMMA DropTornRows ==
    ASSUME PagedInv, RowInv, NEW s \in Sessions, op = Idle, op' = op, Gone(s), FreshEngine
    PROVE  RowInv'
<1>1. TablesHold' /\ PrefixHolds' /\ Recorded' /\ DOMAIN tables' = {}
  BY EmptyRows
<1>2. Started'
  BY <1>1, GoneRows
<1> QED BY <1>1, <1>2, IdleRows DEF RowInv

\* What leaves the device when s goes is in no table that stays and in no prefix that
\* is kept.
LEMMA OutgoingAlone ==
    ASSUME PagedInv, NEW s \in DOMAIN tables, op.pend = <<>>,
           NEW C, C = IF Retained(s) THEN {[table |-> tables[s], toks |-> record[s]]}
                                     ELSE cached,
           NEW p \in Exclusive(pool, Outgoing(s))
    PROVE  /\ \A x \in DOMAIN tables : x # s => p \notin Indices(tables[x].pages)
           /\ \A c \in C : p \notin Indices(c.table.pages)
<1>1. p \in Indices(Outgoing(s)) /\ pool.refs[p] = 1
  BY DEF Exclusive
<1>2. Store(tables, cached, op.pend) /\ Refers(pool, tables, cached, op.pend)
  BY DEF PagedInv, Counted
<1>3. CASE ~Retained(s)
  <2>1. p \in Indices(tables[s].pages)
    BY <1>1, <1>3 DEF Outgoing
  <2>2. /\ \A x \in DOMAIN tables : p \in Indices(tables[x].pages) => x = s
        /\ \A c \in cached : p \notin Indices(c.table.pages)
    BY <1>1, <1>2, <2>1, TableFacts
  <2> QED BY <1>3, <2>2
<1>4. CASE Retained(s)
  <2>1. PICK c \in cached : p \in Indices(c.table.pages)
    <3>1. cached # {} /\ Outgoing(s) = (CHOOSE c \in cached : TRUE).table.pages
      BY <1>1, <1>4, IndicesIs DEF Outgoing
    <3> QED BY <1>1, <3>1
  <2>2. \A x \in DOMAIN tables : p \notin Indices(tables[x].pages)
    BY <1>1, <1>2, <2>1, TableFacts
  <2> QED BY <1>4, <2>2
<1> QED BY <1>3, <1>4

\* The prefix that is kept has the tokens its rows were computed from.
LEMMA DropHeldRows ==
    ASSUME PagedInv, RowInv, NEW s \in Sessions, op = Idle, op' = op, Gone(s),
           up, LeaseValid(s),
           dev' = Freed(dev, Exclusive(pool, Outgoing(s))),
           cached' = IF Retained(s) THEN {[table |-> tables[s], toks |-> record[s]]} ELSE cached,
           tables' = Without(tables, s), record' = Without(record, s)
    PROVE  RowInv'
<1>1. s \in DOMAIN tables
  BY LeaseTable
<1>2. op.pend = <<>>
  BY DEF Idle
<1>3. PICK C : C = IF Retained(s) THEN {[table |-> tables[s], toks |-> record[s]]} ELSE cached
  OBVIOUS
<1>4. ASSUME NEW p \in Exclusive(pool, Outgoing(s))
      PROVE  /\ \A x \in DOMAIN tables : x # s => p \notin Indices(tables[x].pages)
             /\ \A c \in C : p \notin Indices(c.table.pages)
  BY <1>1, <1>2, <1>3, OutgoingAlone
<1>5. DOMAIN tables' = DOMAIN tables \ {s} /\ \A x \in DOMAIN tables' : tables'[x] = tables[x]
  BY DEF Without
<1>6. Started' /\ \A x \in Sessions : x # s => toks'[x] = toks[x]
  BY <1>5, GoneRows
<1>7. Recorded'
  <2>1. DOMAIN record' = DOMAIN record \ {s} /\ \A x \in DOMAIN record' : record'[x] = record[x]
    BY DEF Without
  <2>2. \A x \in DOMAIN record : x \in Sessions
    BY TableTail DEF PagedInv, Typed
  <2> QED BY <1>6, <2>1, <2>2 DEF RowInv, Recorded
<1>8. TablesHold'
  <2> SUFFICES ASSUME NEW x \in DOMAIN tables, x # s
               PROVE  Holds(dev', tables[x].pages, tables[x].len, toks[x])
    <3>1. \A x \in DOMAIN tables \ {s} : Text(x)' = toks[x]
      BY <1>6, IdleRows, TableTail
    <3> QED BY <1>5, <3>1 DEF TablesHold
  <2>1. tables[x].len <= Len(toks[x]) /\ Holds(dev, tables[x].pages, tables[x].len, toks[x])
    BY IdleRows, Shortened
  <2>2. Kept(dev, dev', Indices(tables[x].pages))
    BY <1>4, StorePages, FreedKeeps
  <2> QED BY <2>1, <2>2, TableRows
<1>9. PrefixHolds'
  <2>1. CASE Retained(s)
    <3>1. PICK n, t, r : n = tables[s].len /\ t = tables[s] /\ r = record[s]
      OBVIOUS
    <3>2. C = {[table |-> t, toks |-> r]} /\ cached' = C
      BY <1>3, <2>1, <3>1
    <3>3. n <= Len(toks[s]) /\ Holds(dev, t.pages, n, toks[s]) /\ n \in Nat
      BY <1>1, <3>1, IdleRows, Shortened, TableTail DEF Sane, Tables
    <3>4. Kept(dev, dev', Indices(t.pages))
      <4>1. \A p \in Indices(t.pages) : p \in Pages
        BY <1>1, <3>1, StorePages
      <4>2. \A p \in Exclusive(pool, Outgoing(s)) : p \notin Indices(t.pages)
        BY <1>4, <3>2
      <4> QED BY <4>1, <4>2, FreedKeeps
    <3>5. Holds(dev', t.pages, n, toks[s])
      BY <1>1, <3>1, <3>3, <3>4, TableRows
    <3>6. Len(r) = n /\ s \in DOMAIN record
      BY <2>1, <3>1 DEF Retained
    <3>7. r \in Seq(Tokens) /\ toks[s] \in Seq(Tokens)
      BY <3>1, <3>6 DEF PagedInv, Typed
    <3>8. r = SubSeq(toks[s], 1, n)
      BY <3>1, <3>6 DEF RowInv, Recorded
    <3>9. n <= Len(r) /\ SubSeq(toks[s], 1, n) = SubSeq(r, 1, n)
      BY <3>3, <3>6, <3>7, <3>8, WholeSeq
    <3>10. Holds(dev', t.pages, n, r)
      BY <3>3, <3>5, <3>7, <3>9, HoldsText
    <3> QED BY <3>1, <3>2, <3>10 DEF PrefixHolds
  <2>2. CASE ~Retained(s)
    <3>1. C = cached /\ cached' = cached
      BY <1>3, <2>2
    <3>2. \A c \in cached : Kept(dev, dev', Indices(c.table.pages))
      BY <1>4, <3>1, StorePages, FreedKeeps
    <3> QED BY <3>1, <3>2, PrefixKept
  <2> QED BY <2>1, <2>2
<1> QED BY <1>6, <1>7, <1>8, <1>9, IdleRows DEF RowInv

\* Drop keeps RowInv.
LEMMA DropRows ==
    ASSUME PagedInv, RowInv, NEW s \in Sessions, Drop(s)
    PROVE  RowInv'
<1>1. op = Idle /\ op' = op /\ Gone(s)
  BY DEF Drop
<1>2. CASE ~(up /\ LeaseValid(s)) /\ UNCHANGED <<up, engineVars>>
  <2>1. UNCHANGED engineVars
    BY <1>2
  <2> QED BY <1>1, <1>2, <2>1, DropStaleRows
<1>3. CASE /\ up /\ LeaseValid(s)
           /\ dev' = Freed(dev, Exclusive(pool, Outgoing(s)))
           /\ cached' = IF Retained(s) THEN {[table |-> tables[s], toks |-> record[s]]} ELSE cached
           /\ tables' = Without(tables, s) /\ record' = Without(record, s)
  BY <1>1, <1>3, DropHeldRows
<1>4. CASE FreshEngine
  BY <1>1, <1>4, DropTornRows
<1> QED BY <1>2, <1>3, <1>4 DEF Drop

\* What is reused is computed from tokens that the prompt begins with.
LEMMA ReuseText ==
    ASSUME PagedInv, NEW s \in DOMAIN tables, NEW x \in Seq(Tokens), x # <<>>,
           NEW n, n = Reuse(s, x), n > 0, NEW c, c = CHOOSE e \in cached : TRUE
    PROVE  /\ n <= Len(c.toks) /\ SubSeq(c.toks, 1, n) = SubSeq(x, 1, n)
           /\ c.toks \in Seq(Tokens) /\ c.table.len \in Nat /\ c.table.pages \in Seq(Handles)
<1>1. c \in cached /\ n \in Nat /\ n <= Len(x) - 1 /\ cached # {} /\ tables[s].len = 0
  BY ReuseIs DEF Reuse
<1>2. c.toks \in Seq(Tokens) /\ c.table.len \in Nat /\ c.table.pages \in Seq(Handles)
  BY <1>1 DEF PagedInv, Counted, Store, Entries, Tables
<1>3. PICK k, y, l, m : k = CommonPrefix(c.toks, x) /\ y = c.toks /\ l = c.table.len /\ m = Len(x) - 1
  OBVIOUS
<1>4. /\ k \in Nat /\ k <= Len(y) /\ k <= Len(x) /\ SubSeq(y, 1, k) = SubSeq(x, 1, k)
  BY <1>2, <1>3, CommonIs
<1>5. n = AtMost(AtMost(k, l), m)
  BY <1>1, <1>3 DEF Reuse, MaxReuse
<1>6. l \in Nat /\ m \in Int /\ y \in Seq(Tokens)
  BY <1>2, <1>3
<1>7. n <= k
  BY <1>1, <1>4, <1>5, <1>6 DEF AtMost
<1>8. SubSeq(y, 1, n) = SubSeq(x, 1, n) /\ n <= Len(y)
  BY <1>1, <1>4, <1>6, <1>7, PrefixOf
<1> QED BY <1>2, <1>3, <1>8

\* The first pages hold the first rows.
LEMMA KeptHold ==
    ASSUME NEW d, NEW t, t.pages \in Seq(Handles), NEW n \in Nat, NEW m \in Nat, n <= m,
           DivCeil(n, PageTokens) \in 0 .. Len(t.pages),
           NEW x \in Seq(Tokens), NEW y \in Seq(Tokens), Holds(d, t.pages, m, y),
           n <= Len(x), n <= Len(y), SubSeq(y, 1, n) = SubSeq(x, 1, n)
    PROVE  Holds(d, KeptPages(t, n), n, x)
<1>1. Holds(d, t.pages, n, y)
  <2>1. \A q \in 0 .. n - 1 : q \in 0 .. m - 1
    OBVIOUS
  <2> QED BY <2>1 DEF Holds
<1>2. Holds(d, t.pages, n, x)
  BY <1>1, HoldsText
<1>3. ASSUME NEW q \in 0 .. n - 1
      PROVE  RowAt(d, KeptPages(t, n), q) = RowAt(d, t.pages, q)
  <2>1. q \in Nat /\ q < n
    OBVIOUS
  <2>2. q \div PageTokens + 1 \in 1 .. DivCeil(n, PageTokens)
    BY <2>1, PlaceIs
  <2>3. PICK j, k, hs : j = q \div PageTokens + 1 /\ k = DivCeil(n, PageTokens) /\ hs = t.pages
    OBVIOUS
  <2>4. j \in 1 .. k /\ k \in 0 .. Len(hs) /\ hs \in Seq(Handles)
    BY <2>2, <2>3
  <2>5. SubSeq(hs, 1, k)[j] = hs[j]
    BY <2>4
  <2>6. KeptPages(t, n)[j] = t.pages[j]
    BY <2>3, <2>5 DEF KeptPages
  <2> QED BY <2>3, <2>6 DEF RowAt
<1> QED BY <1>2, <1>3 DEF Holds

\* Adopt keeps RowInv: the rows it shares were computed from the prompt's own prefix.
LEMMA AdoptRows ==
    ASSUME PagedInv, SizeInv, RowInv, Adopt
    PROVE  RowInv'
<1>1. PICK s : s = This
  OBVIOUS
<1>2. PICK x : x = op.in[s]
  OBVIOUS
<1>3. PICK n : n = Reuse(s, x)
  OBVIOUS
<1>4. PICK c : c = CHOOSE e \in cached : TRUE
  OBVIOUS
<1>5. PICK y : y = SubSeq(x, n + 1, Len(x))
  OBVIOUS
<1>6. /\ op.stage = "cursor" /\ op.kind = "prefill" /\ op'.stage = "prepare"
      /\ op'.kind = op.kind /\ op'.rows = op.rows /\ op'.todo = op.todo
      /\ op'.pend = op.pend /\ op'.err = op.err
      /\ op'.in = [z \in {s} |-> y]
      /\ op.pend = <<>> /\ op.todo = op.rows /\ Elems(op.rows) = {s}
      /\ s \in Sessions /\ s \in DOMAIN tables /\ c \in cached
      /\ x \in Seq(Tokens) /\ x # <<>> /\ Len(x) \in Nat
      /\ n \in Nat /\ n > 0 /\ n <= c.table.len /\ n <= Len(x) - 1
      /\ Len(x) = Len(toks[s]) /\ done[s] = 0
      /\ Len(y) = Len(x) - n
      /\ DOMAIN tables' = DOMAIN tables
      /\ tables'[s] = [pages |-> KeptPages(c.table, n), len |-> n]
      /\ \A z \in DOMAIN tables : z # s => tables'[z] = tables[z]
      /\ record' = Put(record, s, SubSeq(x, 1, n))
      /\ UNCHANGED <<dev, cached>> /\ UNCHANGED sessionVars
  BY <1>1, <1>2, <1>3, <1>4, <1>5, AdoptMoves
<1>7. UNCHANGED <<lease, phase, toks, done, pos, solo>>
  BY <1>6 DEF sessionVars
<1>8. x = toks[s]
  <2>1. Next1(toks[s], done[s], x)
    BY <1>2, <1>6 DEF RowInv, Chunk, Prefills
  <2>2. x = SubSeq(toks[s], 1, Len(toks[s]))
    BY <1>6, <2>1 DEF Next1
  <2>3. toks[s] \in Seq(Tokens)
    BY <1>6, TextIs
  <2> QED BY <2>2, <2>3, WholeSeq
<1>9. ~Decodes /\ ~Decodes' /\ Prefills'
  BY <1>6 DEF Decodes, Prefills
<1>10. \A z : Text(z)' = toks[z] /\ Text(z) = toks[z]
  BY <1>7, <1>9 DEF Text
<1>11. Holds(dev, KeptPages(c.table, n), n, x)
  <2>1. /\ n <= Len(c.toks) /\ SubSeq(c.toks, 1, n) = SubSeq(x, 1, n)
        /\ c.toks \in Seq(Tokens) /\ c.table.len \in Nat /\ c.table.pages \in Seq(Handles)
    BY <1>3, <1>4, <1>6, ReuseText
  <2>2. DivCeil(n, PageTokens) \in 0 .. Len(c.table.pages)
    BY <1>3, <1>4, <1>6, ReuseIs
  <2>3. Holds(dev, c.table.pages, c.table.len, c.toks)
    BY <1>6 DEF RowInv, PrefixHolds
  <2>4. n <= Len(x)
    BY <1>6
  <2>5. PICK t, m, w : t = c.table /\ m = c.table.len /\ w = c.toks
    OBVIOUS
  <2>6. Holds(dev, KeptPages(t, n), n, x)
    BY <1>6, <2>1, <2>2, <2>3, <2>4, <2>5, KeptHold
  <2> QED BY <2>5, <2>6
<1>12. TablesHold'
  <2> SUFFICES ASSUME NEW z \in DOMAIN tables
               PROVE  Holds(dev, tables'[z].pages, tables'[z].len, toks[z])
    BY <1>6, <1>10 DEF TablesHold
  <2>1. CASE z = s
    BY <1>6, <1>8, <1>11, <2>1
  <2>2. CASE z # s
    BY <1>6, <1>10, <2>2 DEF RowInv, TablesHold
  <2> QED BY <2>1, <2>2
<1>13. Recorded'
  <2>1. PICK r : r = SubSeq(x, 1, n)
    OBVIOUS
  <2>2. r \in Seq(Tokens) /\ Len(r) = n /\ n <= Len(x)
    BY <1>6, <2>1
  <2>3. /\ DOMAIN record' = DOMAIN record \cup {s} /\ record'[s] = r
        /\ \A z \in DOMAIN record : z # s => record'[z] = record[z]
    BY <1>6, <2>1 DEF Put
  <2> QED BY <1>7, <1>8, <2>1, <2>2, <2>3 DEF RowInv, Recorded
<1>14. Started'
  BY <1>6, <1>7 DEF RowInv, Started
<1>15. Unsettled' /\ Chunk'
  BY <1>6, <1>9 DEF Unsettled, Chunk
<1>16. DOMAIN op'.pend = {} /\ PendSeqs' = {}
  BY <1>6 DEF PendSeqs
<1>17. PendsHold'
  BY <1>16 DEF PendsHold
<1>18. InText'
  <2>1. Next1(x, n, y)
    <3>1. n + Len(y) = Len(x)
      BY <1>6
    <3> QED BY <1>5, <1>6, <3>1 DEF Next1
  <2>2. op'.in[s] = y /\ tables'[s].len = n /\ Text(s)' = x
    BY <1>6, <1>8, <1>10
  <2>3. Elems(op'.todo) \cup PendSeqs' = {s}
    BY <1>6, <1>16
  <2>4. Next1(Text(s)', tables'[s].len, op'.in[s])
    BY <2>1, <2>2
  <2> QED BY <2>3, <2>4 DEF InText
<1> QED BY <1>6, <1>12, <1>13, <1>14, <1>15, <1>17, <1>18, PrefixStays DEF RowInv

\* The pages an append reserves are zeroed, and one takes the rows of the page it copies.
LEMMA AllocatedKeeps ==
    ASSUME NEW d \in DevPages, NEW hs, NEW p \in Pages, p \notin Indices(hs)
    PROVE  Allocated(d, hs)[p] = d[p]
<1>1. ~ \E i \in DOMAIN hs : Index(hs[i]) = p
  BY IndicesIs
<1> QED BY <1>1 DEF Allocated

\* A plan touches the rows of the pages it reserves alone, and copies the shared one.
LEMMA CopiedRows ==
    ASSUME PagedInv, op.stage = "prepare", Need <= Available(pool),
           NEW t, t = tables[Row], NEW hs, hs = PickedHandles(pool, Need),
           NEW cow, cow = CopiesTail(pool, t, Count),
           NEW e, e = Copied(Allocated(dev, hs), t, hs)
    PROVE  /\ \A p \in Pages : p \notin Indices(hs) => e[p] = dev[p]
           /\ \A p \in Indices(hs) : p \in Pages /\ pool.refs[p] = 0
           /\ cow => e[Index(hs[1])].rows = dev[LastPage(t)].rows
<1>1. PICK r : r = [seq |-> Row, from |-> tables[Row].len,
                    pages |-> Planned(pool, tables[Row], Count),
                    alloc |-> PickedHandles(pool, Need),
                    cow |-> CopiesTail(pool, tables[Row], Count)]
  OBVIOUS
<1>2. /\ r \in Pending /\ r.alloc = hs /\ Need \in Nat /\ r.cow = cow
      /\ cow => 1 \in DOMAIN hs /\ pool.refs[LastPage(t)] >= 2 /\ t.len % PageTokens # 0
  BY <1>1, PlannedIs
<1>3. PoolSound(pool) /\ dev \in DevPages
  BY DEF PagedInv, Counted, Refers, Mirrors
<1>4. \A p \in Indices(hs) : p \in Pages /\ pool.refs[p] = 0
  BY <1>2, <1>3, PickedIs
<1>5. PICK a : a = Allocated(dev, hs)
  OBVIOUS
<1>6. a \in [Pages -> {a[p] : p \in Pages}] /\ \A p \in Pages : p \notin Indices(hs) => a[p] = dev[p]
  <2>1. DOMAIN a = Pages /\ a = [p \in Pages |-> a[p]]
    BY <1>5 DEF Allocated
  <2> QED BY <1>3, <1>5, <2>1, AllocatedKeeps
<1>7. CASE cow
  <2>1. e = [a EXCEPT ![Index(hs[1])].rows = a[LastPage(t)].rows]
    BY <1>5, <1>7 DEF Copied
  <2>2. Index(hs[1]) \in Indices(hs)
    BY <1>2, <1>7, IndicesIs
  <2>3. LastPage(t) \in Pages /\ LastPage(t) \notin Indices(hs)
    <3>1. Sane(t)
      BY RowIs
    <3>2. LastPage(t) \in Pages
      BY <1>2, <1>7, <3>1, TailPage
    <3>3. ~(pool.refs[LastPage(t)] = 0)
      BY <1>2, <1>7
    <3> QED BY <1>4, <3>2, <3>3
  <2>4. Index(hs[1]) \in Pages
    BY <1>4, <2>2
  <2>5. a[LastPage(t)] = dev[LastPage(t)]
    BY <1>6, <2>3
  <2>6. \A p \in Pages : p # Index(hs[1]) => e[p] = a[p]
    BY <1>6, <2>1
  <2>7. e[Index(hs[1])].rows = a[LastPage(t)].rows
    <3>1. PICK p, v : p = Index(hs[1]) /\ v = a[LastPage(t)].rows
      OBVIOUS
    <3>2. a[p] \in [gen : Nat, rows : [0 .. PageTokens - 1 -> Seq(Tokens)]]
      <4>1. Mirrors(a, Reserve(pool, Need))
        BY <1>2, <1>3, <1>5, AllocMirrors DEF PagedInv
      <4> QED BY <2>4, <3>1, <4>1 DEF Mirrors, DevPages
    <3>3. e = [a EXCEPT ![p] = [a[p] EXCEPT !.rows = v]]
      BY <2>1, <3>1
    <3>4. e[p] = [a[p] EXCEPT !.rows = v]
      BY <1>6, <2>4, <3>1, <3>3
    <3> QED BY <3>1, <3>2, <3>4
  <2>8. \A p \in Pages : p \notin Indices(hs) => e[p] = dev[p]
    BY <1>6, <2>2, <2>6
  <2> QED BY <1>4, <2>5, <2>7, <2>8
<1>8. CASE ~cow
  <2>1. e = a
    BY <1>5, <1>8 DEF Copied
  <2> QED BY <1>4, <1>6, <1>8, <2>1
<1> QED BY <1>7, <1>8

\* A planned append has the rows of its table, copied or not.
LEMMA PlannedHolds ==
    ASSUME NEW t, Sane(t), NEW cow \in BOOLEAN, cow => t.pages # <<>>,
           NEW hs \in Seq(Handles), cow => 1 \in DOMAIN hs,
           NEW d, NEW e, \A p \in Indices(Own(t, cow)) : e[p].rows = d[p].rows,
           cow => e[Index(hs[1])].rows = d[LastPage(t)].rows,
           NEW x, Holds(d, t.pages, t.len, x)
    PROVE  Holds(e, Own(t, cow) \o hs, t.len, x)
<1>1. /\ t.pages \in Seq(Handles) /\ Distinct(t.pages) /\ t.len \in Nat
      /\ Len(t.pages) = DivCeil(t.len, PageTokens)
  BY DEF Sane, Tables, Fits
<1>2. PICK own : own = Own(t, cow)
  OBVIOUS
<1>3. own \in Seq(Handles) /\ Len(own) = Len(t.pages) - Of(cow)
  BY <1>1, <1>2, OwnIs
<1>4. PICK l : l = Len(t.pages) /\ l \in Nat
  BY <1>1
<1>5. \A j \in DOMAIN own : own[j] = t.pages[j]
  <2>1. PICK ps : ps = t.pages
    OBVIOUS
  <2>2. cow => l # 0
    BY <1>1, <1>4, EmptySeq
  <2>3. cow => own = SubSeq(ps, 1, l - 1)
    BY <1>2, <1>4, <2>1 DEF Own
  <2>4. CASE cow
    <3>1. \A j \in 1 .. l - 1 : SubSeq(ps, 1, l - 1)[j] = ps[j]
      BY <1>1, <1>4, <2>1
    <3>2. DOMAIN own = 1 .. l - 1
      BY <1>1, <1>4, <2>1, <2>2, <2>3, <2>4
    <3> QED BY <2>1, <2>3, <2>4, <3>1, <3>2
  <2>5. CASE ~cow
    BY <1>2, <2>5 DEF Own
  <2> QED BY <2>4, <2>5
<1>6. ASSUME NEW q \in 0 .. t.len - 1
      PROVE  RowAt(e, own \o hs, q) = RowAt(d, t.pages, q)
  <2>1. q \in Nat /\ q < t.len
    BY <1>1
  <2>2. PICK j, o : j = q \div PageTokens + 1 /\ o = q % PageTokens
    OBVIOUS
  <2>3. j \in 1 .. l
    BY <1>1, <1>4, <2>1, <2>2, PlaceIs
  <2>4. RowAt(e, own \o hs, q) = e[Index((own \o hs)[j])].rows[o]
        /\ RowAt(d, t.pages, q) = d[Index(t.pages[j])].rows[o]
    BY <2>2 DEF RowAt
  <2>5. CASE j \in DOMAIN own
    <3>1. (own \o hs)[j] = own[j]
      <4>1. DOMAIN own = 1 .. Len(own) /\ Len(own) \in Nat
        BY <1>3
      <4> QED BY <1>3, <2>5, <4>1
    <3>2. Index(own[j]) \in Indices(own)
      BY <2>5, IndicesIs
    <3> QED BY <1>2, <1>5, <2>4, <2>5, <3>1, <3>2
  <2>6. CASE j \notin DOMAIN own
    <3>1. cow /\ Len(own) = l - 1 /\ j = l /\ l \in Nat \ {0}
      <4>1. DOMAIN own = 1 .. Len(own) /\ Len(own) = l - Of(cow)
        BY <1>3, <1>4
      <4>2. CASE cow
        BY <1>4, <2>3, <2>6, <4>1, <4>2 DEF Of
      <4>3. CASE ~cow
        BY <1>4, <2>3, <2>6, <4>1, <4>3 DEF Of
      <4> QED BY <4>2, <4>3
    <3>2. (own \o hs)[j] = hs[1]
      <4>1. Len(hs) \in Nat /\ Len(hs) >= 1
        BY <3>1
      <4>2. (own \o hs)[Len(own) + 1] = hs[1]
        BY <1>3, <4>1, JoinedAt
      <4>3. Len(own) + 1 = j
        BY <3>1
      <4> QED BY <4>2, <4>3
    <3>3. d[Index(t.pages[j])].rows = e[Index(hs[1])].rows
      BY <1>4, <3>1 DEF LastPage
    <3> QED BY <2>4, <3>2, <3>3
  <2> QED BY <2>5, <2>6
<1> QED BY <1>2, <1>6 DEF Holds

\* PlanRow keeps RowInv: the copy has the rows of the page it replaces.
LEMMA PlanRowRows ==
    ASSUME PagedInv, SizeInv, RowInv, PlanRow
    PROVE  RowInv'
<1>1. PICK c, s, t : c = Count /\ s = Row /\ t = tables[s]
  OBVIOUS
<1>2. PICK hs : hs = PickedHandles(pool, Need)
  OBVIOUS
<1>3. PICK r : r = [seq |-> Row, from |-> tables[Row].len,
                    pages |-> Planned(pool, tables[Row], Count),
                    alloc |-> PickedHandles(pool, Need),
                    cow |-> CopiesTail(pool, tables[Row], Count)]
  OBVIOUS
<1>4. /\ op.stage = "prepare" /\ Need <= Available(pool)
      /\ dev' = Copied(Allocated(dev, hs), t, hs)
      /\ op'.pend = Append(op.pend, r)
  BY <1>1, <1>2, <1>3 DEF PlanRow, PagedInv, OpSound, OpTyped
<1>5. /\ r \in Pending /\ r.seq = s /\ r.from = t.len /\ r.alloc = hs
      /\ r.pages = Own(t, r.cow) \o hs
      /\ r.cow => t.len % PageTokens # 0 /\ 1 \in DOMAIN hs
      /\ r.cow = CopiesTail(pool, t, c)
  BY <1>1, <1>2, <1>3, <1>4, PlannedIs
<1>6. s \in Sessions /\ s \in DOMAIN tables /\ Sane(t)
  BY <1>1, <1>4, RowIs
<1>7. /\ \A p \in Pages : p \notin Indices(hs) => dev'[p] = dev[p]
      /\ \A p \in Indices(hs) : p \in Pages /\ pool.refs[p] = 0
      /\ r.cow => dev'[Index(hs[1])].rows = dev[LastPage(t)].rows
  BY <1>1, <1>2, <1>4, <1>5, CopiedRows
<1>8. ASSUME NEW ps, \A p \in ps : p \in Pages /\ pool.refs[p] > 0
      PROVE  Kept(dev, dev', ps)
  <2>1. \A p \in ps : p \in Pages /\ p \notin Indices(hs)
    <3> SUFFICES ASSUME NEW p \in ps PROVE p \in Pages /\ p \notin Indices(hs)
      OBVIOUS
    <3>1. p \in Pages /\ ~(pool.refs[p] = 0)
      BY <1>8
    <3> QED BY <1>7, <3>1
  <2> QED BY <1>7, <2>1 DEF Kept
<1>9. /\ op'.stage \in {"prepare", "kernel"} /\ op'.kind = op.kind /\ op'.rows = op.rows
      /\ op'.in = op.in
      /\ Elems(op'.todo) \cup PendSeqs' = Elems(op.todo) \cup PendSeqs
      /\ UNCHANGED <<tables, record, cached>> /\ UNCHANGED sessionVars
  BY PlanMoves
<1>10. UNCHANGED <<lease, phase, toks, done, pos, solo>>
  BY <1>9 DEF sessionVars
<1>11. /\ \A x : Text(x)' = Text(x)
       /\ Decodes' = Decodes /\ Prefills' = Prefills /\ Ahead
  BY <1>4, <1>9, <1>10 DEF Text, Decodes, Prefills, Ahead, Working
<1>12. TablesHold'
  BY <1>8, <1>9, <1>11, StorePages, TablesStay
<1>13. PrefixHolds'
  <2>1. \A x \in cached : Kept(dev, dev', Indices(x.table.pages))
    BY <1>8, StorePages
  <2> QED BY <1>9, <2>1, PrefixKept
<1>14. PendsHold'
  <2> SUFFICES ASSUME NEW i \in DOMAIN op'.pend, NEW w, w = op'.pend[i], NEW z, z = w.seq
               PROVE  Holds(dev', w.pages, Computing(w)', Text(z)')
    BY DEF PendsHold
  <2>1. Computing(w)' = w.from
    BY <1>9 DEF Computing
  <2>2. op.pend \in Seq(Pending)
    BY DEF PagedInv, OpSound, OpTyped
  <2>3. (i \in DOMAIN op.pend /\ w = op.pend[i]) \/ w = r
    BY <1>4, <1>5, <2>2, AppendSeqs
  <2>4. CASE i \in DOMAIN op.pend /\ w = op.pend[i]
    <3>1. Kept(dev, dev', Indices(w.pages))
      BY <1>8, <2>4, StorePages
    <3>2. Holds(dev', w.pages, Computing(w), Text(z))
      BY <1>4, <2>4, <3>1, PendStays
    <3>3. Computing(w) = w.from
      BY <1>4 DEF Computing
    <3> QED BY <1>11, <2>1, <3>2, <3>3
  <2>5. CASE w = r
    <3>1. t.pages \in Seq(Handles) /\ Distinct(t.pages) /\ r.cow \in BOOLEAN
          /\ (r.cow => t.pages # <<>>) /\ hs \in Seq(Handles)
      BY <1>5, <1>6, TailPage DEF Sane, Tables, Pending
    <3>2. \A p \in Indices(Own(t, r.cow)) : p \in Indices(t.pages)
      BY <3>1, OwnIs
    <3>3. \A p \in Indices(Own(t, r.cow)) : dev'[p].rows = dev[p].rows
      <4>1. \A p \in Indices(Own(t, r.cow)) : p \in Pages /\ pool.refs[p] > 0
        BY <1>1, <1>6, <3>2, StorePages
      <4> QED BY <1>8, <4>1 DEF Kept
    <3>4. Holds(dev, t.pages, t.len, Text(s))
      BY <1>1, <1>6 DEF RowInv, TablesHold
    <3>5. Holds(dev', Own(t, r.cow) \o hs, t.len, Text(s))
      BY <1>5, <1>6, <1>7, <3>1, <3>3, <3>4, PlannedHolds
    <3> QED BY <1>5, <1>11, <2>1, <2>5, <3>5
  <2> QED BY <2>3, <2>4, <2>5
<1>15. Recorded' /\ Started'
  BY <1>9, <1>10 DEF RowInv, Recorded, Started
<1>16. Unsettled' /\ Chunk'
  BY <1>4, <1>9, <1>10, <1>11 DEF RowInv, Unsettled, Chunk
<1>17. InText'
  BY <1>9, <1>11 DEF RowInv, InText
<1> QED BY <1>12, <1>13, <1>14, <1>15, <1>16, <1>17 DEF RowInv

\* The pages up to row f reach the page of a later row q, and not past it.
LEMMA DivReached ==
    ASSUME NEW f \in Nat, NEW q \in Nat, f <= q, NEW n \in Nat \ {0}
    PROVE  /\ (f + n - 1) \div n \in Nat /\ q \div n \in Nat
           /\ (f + n - 1) \div n <= q \div n + 1
           /\ f % n = 0 => (f + n - 1) \div n <= q \div n
<1>1. f \div n \in Nat /\ q \div n \in Nat /\ f \div n <= q \div n
  BY DivMono
<1>2. f + n - 1 \in Nat /\ f + n \in Nat /\ f + n - 1 <= f + n
  OBVIOUS
<1>3. (f + n - 1) \div n \in Nat /\ (f + n) \div n \in Nat /\ (f + n - 1) \div n <= (f + n) \div n
  BY <1>2, DivMono
<1>4. f \div n + 1 = (f + n) \div n
  BY DivNext
<1>5. f % n = 0 => (f + n - 1) \div n < (f + n) \div n
  <2>1. 1 \in Nat \ {0} /\ f + 1 + n - 1 = f + n
    OBVIOUS
  <2>2. f % n = 0 => (f + n - 1) \div n < (f + 1 + n - 1) \div n
    BY <2>1, DivOver
  <2> QED BY <2>1, <2>2
<1>6. PICK a, b, c : a = f \div n /\ b = q \div n /\ c = (f + n - 1) \div n
  OBVIOUS
<1> QED BY <1>1, <1>3, <1>4, <1>5, <1>6

\* Rows with the same page number and offset are the same row.
LEMMA SamePlace ==
    ASSUME NEW q \in Nat, NEW m \in Nat, NEW n \in Nat \ {0},
           q \div n = m \div n, q % n = m % n
    PROVE  q = m
OBVIOUS

\* The pages of a planned append are distinct.
LEMMA PendDistinct ==
    ASSUME PagedInv, NEW i \in DOMAIN op.pend, NEW r, r = op.pend[i]
    PROVE  Distinct(r.pages)
<1>1. PICK t : t = tables[r.seq]
  OBVIOUS
<1>2. /\ r.alloc \in Seq(Handles) /\ r.cow \in BOOLEAN /\ Sane(t) /\ r.seq \in DOMAIN tables
      /\ r.pages = Own(t, r.cow) \o r.alloc /\ (r.cow => t.pages # <<>>)
  BY <1>1, PendPages
<1>3. t.pages \in Seq(Handles) /\ Distinct(t.pages)
  BY <1>2 DEF Sane, Tables
<1>4. Own(t, r.cow) \in Seq(Handles) /\ Distinct(Own(t, r.cow))
  BY <1>2, <1>3, OwnIs
<1>5. Store(tables, cached, op.pend) /\ Refers(pool, tables, cached, op.pend)
  BY DEF PagedInv, Counted
<1>6. Distinct(r.alloc)
  BY <1>5, StoreFacts
<1>7. \A p \in Indices(Own(t, r.cow)) : p \notin Indices(r.alloc)
  <2> SUFFICES ASSUME NEW p \in Indices(Own(t, r.cow)), p \in Indices(r.alloc) PROVE FALSE
    OBVIOUS
  <2>1. p \in Indices(t.pages)
    BY <1>1, PendIndices, SMTT(30)
  <2>2. p \in Indices(op.pend[i].alloc)
    BY SMTT(30)
  <2> QED BY <1>1, <1>2, <1>5, <2>1, <2>2, AllocFacts
<1> QED BY <1>2, <1>4, <1>6, <1>7, ConcatHandles

\* A row that is appended is on a reserved page or on the last page of its table, when
\* that is the table's alone.
LEMMA WrittenAt ==
    ASSUME PagedInv, NEW i \in DOMAIN op.pend, NEW r, r = op.pend[i],
           NEW q \in Nat, r.from <= q, q < r.from + Len(op.in[r.seq]),
           NEW j, j = q \div PageTokens + 1, NEW p, p = Index(r.pages[j])
    PROVE  /\ j \in DOMAIN r.pages /\ p \in Indices(r.pages)
           /\ \/ p \in Indices(r.alloc)
              \/ ~r.cow /\ p \in Indices(tables[r.seq].pages) /\ pool.refs[p] = 1
<1>1. PICK t, f, l, n : t = tables[r.seq] /\ f = r.from /\ l = Len(op.in[r.seq]) /\ n = PageTokens
  BY SMTT(60)
<1>2. /\ r.pages \in Seq(Handles) /\ r.alloc \in Seq(Handles) /\ r.cow \in BOOLEAN
      /\ f \in Nat /\ l \in Nat /\ Sane(t) /\ f = t.len
      /\ r.pages = Own(t, r.cow) \o r.alloc
      /\ Len(r.pages) = DivCeil(f + l, n)
      /\ (r.cow => t.pages # <<>>) /\ (r.cow => f % n # 0)
  BY <1>1, PendPages
<1>3. PICK own, ps, al, pg : own = Own(t, r.cow) /\ ps = t.pages /\ al = r.alloc /\ pg = r.pages
  OBVIOUS
<1>4. /\ ps \in Seq(Handles) /\ Distinct(ps) /\ Len(ps) = DivCeil(f, n)
  BY <1>1, <1>2, <1>3, ZenonT(60) DEF Sane, Tables, Fits
<1>5. own \in Seq(Handles) /\ Len(own) = Len(ps) - Of(r.cow)
  BY <1>2, <1>3, <1>4, OwnIs, ZenonT(60)
<1>0. /\ f \in Nat /\ l \in Nat /\ al \in Seq(Handles) /\ pg \in Seq(Handles)
      /\ pg = own \o al /\ own \in Seq(Handles) /\ ps \in Seq(Handles) /\ n \in Nat \ {0}
  BY <1>1, <1>2, <1>3, <1>4, <1>5, PageAssumption, ZenonT(30)
<1>12. /\ Len(own) \in Nat /\ Len(al) \in Nat /\ Len(pg) = Len(own) + Len(al)
       /\ Len(ps) \in Nat
  BY <1>0
<1>6. j \in 1 .. Len(pg) /\ j \in Nat /\ j >= 1
  <2>0. q < f + l
    BY <1>1
  <2>1. f + l \in Nat /\ q < f + l
    BY <1>0, <2>0
  <2>2. q \div n + 1 \in 1 .. DivCeil(f + l, n)
    BY <1>1, <2>1, PlaceIs, SMTT(60)
  <2>3. j \in 1 .. Len(pg)
    BY <1>1, <1>2, <1>3, <2>2, ZenonT(30)
  <2> QED BY <2>3
<1>7. j \in DOMAIN r.pages /\ p \in Indices(r.pages)
  <2>1. j \in DOMAIN pg
    BY <1>0, <1>6
  <2>2. j \in DOMAIN r.pages
    BY <1>3, <2>1
  <2> QED BY <2>2, IndicesIs
<1>8. Len(ps) <= j /\ (f % n = 0 => Len(ps) < j)
  <2>1. PICK a, b : a = (f + n - 1) \div n /\ b = q \div n
    OBVIOUS
  <2>2. f <= q /\ Len(ps) = a /\ j = b + 1
    BY <1>1, <1>4, <2>1 DEF DivCeil
  <2>3. /\ a \in Nat /\ b \in Nat /\ a <= b + 1
        /\ f % n = 0 => a <= b
    BY <1>0, <2>1, <2>2, DivReached
  <2> QED BY <2>2, <2>3
<1>9. CASE j > Len(own)
  <2>1. j - Len(own) \in 1 .. Len(al) /\ j \in 1 .. Len(own) + Len(al)
    BY <1>6, <1>9, <1>12
  <2>2. pg[j] = al[j - Len(own)] /\ j - Len(own) \in DOMAIN al
    BY <1>0, <1>9, <2>1
  <2>3. p \in Indices(r.alloc)
    BY <1>3, <2>2, IndicesIs
  <2> QED BY <1>7, <2>3
<1>10. CASE ~(j > Len(own))
  <2>1. ~r.cow /\ j = Len(ps)
    <3>1. Of(r.cow) \in {0, 1} /\ (r.cow <=> Of(r.cow) = 1)
      BY <1>2 DEF Of
    <3>2. Len(own) = Len(ps) - Of(r.cow) /\ Len(ps) <= j
      BY <1>5, <1>8
    <3>3. Of(r.cow) = 0 /\ j = Len(ps)
      BY <1>6, <1>10, <1>12, <3>1, <3>2
    <3> QED BY <3>1, <3>3, SMTT(30)
  <2>2. f % n # 0
    BY <1>8, <1>12, <2>1
  <2>3. own = ps
    BY <1>3, <2>1 DEF Own
  <2>4. j \in DOMAIN ps /\ pg[j] = ps[j] /\ j = Len(ps)
    BY <1>0, <1>6, <1>12, <2>1, <2>3
  <2>5. p = LastPage(t) /\ p \in Indices(t.pages)
    BY <1>3, <2>4, IndicesIs, SMTT(60) DEF LastPage
  <2>6. pool.refs[LastPage(t)] = 1
    <3>1. PendSound(r)
      BY SMTT(60) DEF PagedInv, OpSound, Pends
    <3> QED BY <1>1, <1>2, <2>1, <2>2, <3>1, ZenonT(30) DEF PendSound
  <2> QED BY <1>1, <1>7, <2>1, <2>5, <2>6
<1> QED BY <1>9, <1>10

\* No other append has the page that is written, no prefix, and no other table.
LEMMA WrittenAlone ==
    ASSUME PagedInv, NEW i \in DOMAIN op.pend, NEW r, r = op.pend[i],
           NEW q \in Nat, r.from <= q, q < r.from + Len(op.in[r.seq]),
           NEW p, p = Index(r.pages[q \div PageTokens + 1])
    PROVE  /\ \A k \in DOMAIN op.pend : p \in Indices(op.pend[k].pages) => k = i
           /\ \A c \in cached : p \notin Indices(c.table.pages)
           /\ \A x \in DOMAIN tables : p \in Indices(tables[x].pages) => x = r.seq /\ ~r.cow
<1>1. Store(tables, cached, op.pend) /\ Refers(pool, tables, cached, op.pend)
  BY DEF PagedInv, Counted
<1>2. r.seq \in DOMAIN tables
  BY PendPages
<1>3. \/ p \in Indices(r.alloc)
      \/ ~r.cow /\ p \in Indices(tables[r.seq].pages) /\ pool.refs[p] = 1
  BY WrittenAt
<1>4. \A j, k \in DOMAIN op.pend : op.pend[j].seq = op.pend[k].seq => j = k
  BY DEF PagedInv, OpSound, OpStages
<1>5. ASSUME NEW k \in DOMAIN op.pend, p \in Indices(op.pend[k].pages)
      PROVE  /\ op.pend[k].seq \in DOMAIN tables
             /\ p \in Indices(tables[op.pend[k].seq].pages) \/ p \in Indices(op.pend[k].alloc)
  BY <1>5, PendPages, PendIndices
<1>6. CASE p \in Indices(r.alloc)
  <2>1. /\ \A s \in DOMAIN tables : p \notin Indices(tables[s].pages)
        /\ \A c \in cached : p \notin Indices(c.table.pages)
        /\ \A j \in DOMAIN op.pend : p \in Indices(op.pend[j].alloc) => i = j
    <3>1. p \in Indices(op.pend[i].alloc)
      BY <1>6
    <3> QED BY <3>1, ReservedAlone
  <2>2. p \in Indices(op.pend[i].alloc)
    BY <1>6
  <2>3. ASSUME NEW k \in DOMAIN op.pend, p \in Indices(op.pend[k].pages)
        PROVE  k = i
    BY <1>5, <2>1, <2>3, SMTT(30)
  <2> QED BY <2>1, <2>3
<1>7. CASE ~r.cow /\ p \in Indices(tables[r.seq].pages) /\ pool.refs[p] = 1
  <2>1. /\ \A x \in DOMAIN tables : p \in Indices(tables[x].pages) => x = r.seq
        /\ \A c \in cached : p \notin Indices(c.table.pages)
    BY <1>1, <1>2, <1>7, TableFacts
  <2>2. ASSUME NEW k \in DOMAIN op.pend, p \in Indices(op.pend[k].pages)
        PROVE  k = i
    <3>1. CASE p \in Indices(op.pend[k].alloc)
      BY <1>1, <1>2, <1>7, <3>1, AllocFacts, SMTT(30)
    <3>2. CASE p \in Indices(tables[op.pend[k].seq].pages)
      BY <1>4, <1>5, <2>1, <2>2, <3>2, SMTT(30)
    <3> QED BY <1>5, <2>2, <3>1, <3>2
  <2> QED BY <1>7, <2>1, <2>2, SMTT(30)
<1> QED BY <1>3, <1>6, <1>7, ZenonT(30)

\* The page that has row q of the pages hs.
PageOf(hs, q) == Index(hs[q \div PageTokens + 1])

\* What writes a place is an append whose row has that place.
LEMMA WriterIs ==
    ASSUME PagedInv, NEW p, NEW o, NEW w \in Writers(p, o)
    PROVE  \E k \in DOMAIN op.pend : \E n \in 1 .. MaxPos : \E q \in Nat :
              /\ w[1] = op.pend[k] /\ w[2] = n /\ w = <<op.pend[k], n>>
              /\ q = op.pend[k].from + n - 1 /\ n <= Len(op.in[op.pend[k].seq])
              /\ op.pend[k].from <= q
              /\ q < op.pend[k].from + Len(op.in[op.pend[k].seq])
              /\ p = PageOf(op.pend[k].pages, q) /\ o = q % PageTokens
<1>1. /\ w \in Elems(op.pend) \X (1 .. MaxPos)
      /\ w[2] <= Len(op.in[w[1].seq])
      /\ Index(w[1].pages[(w[1].from + w[2] - 1) \div PageTokens + 1]) = p
      /\ (w[1].from + w[2] - 1) % PageTokens = o
  BY DEF Writers
<1>2. w[1] \in Elems(op.pend) /\ w[2] \in 1 .. MaxPos /\ w = <<w[1], w[2]>>
  BY <1>1
<1>3. PICK k \in DOMAIN op.pend : w[1] = op.pend[k]
  BY <1>2 DEF Elems
<1>4. PICK n \in 1 .. MaxPos : w[2] = n
  BY <1>2
<1>5. PICK f, l : f = op.pend[k].from /\ l = Len(op.in[op.pend[k].seq])
  OBVIOUS
<1>6. f \in Nat /\ l \in Nat
  BY <1>5, PendPages
<1>7. PICK q : q = f + n - 1
  OBVIOUS
<1>8. n <= l
  BY <1>1, <1>3, <1>4, <1>5
<1>9. q \in Nat /\ f <= q /\ q < f + l
  BY <1>6, <1>7, <1>8
<1>10. p = PageOf(op.pend[k].pages, q) /\ o = q % PageTokens
  BY <1>1, <1>3, <1>4, <1>5, <1>7 DEF PageOf
<1>11. w = <<op.pend[k], n>>
  BY <1>2, <1>3, <1>4
<1> QED BY <1>3, <1>4, <1>5, <1>7, <1>8, <1>9, <1>10, <1>11

\* Two rows of an append are on different places.
LEMMA SameRow ==
    ASSUME PagedInv, NEW i \in DOMAIN op.pend, NEW r, r = op.pend[i],
           NEW q \in Nat, NEW m \in Nat,
           q < r.from + Len(op.in[r.seq]), m < r.from + Len(op.in[r.seq]),
           PageOf(r.pages, q) = PageOf(r.pages, m), q % PageTokens = m % PageTokens
    PROVE  q = m
<1>1. PICK f, l, n, hs : f = r.from /\ l = Len(op.in[r.seq]) /\ n = PageTokens /\ hs = r.pages
  OBVIOUS
<1>2. f \in Nat /\ l \in Nat /\ hs \in Seq(Handles) /\ Len(hs) = DivCeil(f + l, PageTokens)
  BY <1>1, PendPages
<1>3. n \in Nat \ {0} /\ f + l \in Nat /\ q < f + l /\ m < f + l
  <2>1. f \in Nat /\ l \in Nat
    BY <1>2
  <2>2. q < f + l /\ m < f + l /\ n \in Nat \ {0}
    BY <1>1, PageAssumption
  <2>3. f + l \in Nat
    BY <2>1
  <2> QED BY <2>2, <2>3
<1>4. q \div PageTokens + 1 \in 1 .. DivCeil(f + l, PageTokens) /\ q \div PageTokens \in Nat
  BY <1>3, PlaceIs
<1>5. m \div PageTokens + 1 \in 1 .. DivCeil(f + l, PageTokens) /\ m \div PageTokens \in Nat
  BY <1>3, PlaceIs
<1>6. PICK a, b : a = q \div PageTokens + 1 /\ b = m \div PageTokens + 1
  OBVIOUS
<1>7. a \in DOMAIN hs /\ b \in DOMAIN hs /\ Index(hs[a]) = Index(hs[b])
  BY <1>1, <1>2, <1>4, <1>5, <1>6, SMTT(30) DEF PageOf
<1>8. Distinct(hs)
  BY <1>1, PendDistinct
<1>9. a = b
  BY <1>7, <1>8 DEF Distinct
<1>10. q \div PageTokens = m \div PageTokens
  BY <1>4, <1>5, <1>6, <1>9
<1> QED BY <1>1, <1>3, <1>10, SamePlace

\* The rows an append finds are not written.
LEMMA FoundUnwritten ==
    ASSUME PagedInv, NEW i \in DOMAIN op.pend, NEW r, r = op.pend[i], NEW m \in Nat, m < r.from
    PROVE  Writers(PageOf(r.pages, m), m % PageTokens) = {}
<1> SUFFICES ASSUME NEW w \in Writers(PageOf(r.pages, m), m % PageTokens) PROVE FALSE
  OBVIOUS
<1>1. PICK p : p = PageOf(r.pages, m)
  OBVIOUS
<1>2. PICK k \in DOMAIN op.pend : \E n \in 1 .. MaxPos : \E q \in Nat :
         /\ op.pend[k].from <= q
         /\ q < op.pend[k].from + Len(op.in[op.pend[k].seq])
         /\ p = PageOf(op.pend[k].pages, q) /\ m % PageTokens = q % PageTokens
  BY <1>1, WriterIs
<1>3. PICK q \in Nat :
         /\ op.pend[k].from <= q
         /\ q < op.pend[k].from + Len(op.in[op.pend[k].seq])
         /\ p = PageOf(op.pend[k].pages, q) /\ m % PageTokens = q % PageTokens
  BY <1>2
<1>4. PICK f, l, hs : f = r.from /\ l = Len(op.in[r.seq]) /\ hs = r.pages
  OBVIOUS
<1>5. f \in Nat /\ l \in Nat /\ hs \in Seq(Handles) /\ Len(hs) = DivCeil(f + l, PageTokens)
  BY <1>4, PendPages
<1>6. f + l \in Nat /\ m < f + l
  <2>1. f \in Nat /\ l \in Nat
    BY <1>5
  <2> QED BY <1>4, <2>1, SMTT(30)
<1>7. m \div PageTokens + 1 \in 1 .. DivCeil(f + l, PageTokens)
  BY <1>6, PlaceIs
<1>8. m \div PageTokens + 1 \in DOMAIN hs
  BY <1>5, <1>7
<1>9. p \in Indices(r.pages)
  BY <1>1, <1>4, <1>8, IndicesIs DEF PageOf
<1>10. i = k
  <2>1. PICK v : v = op.pend[k]
    OBVIOUS
  <2>2. p = Index(v.pages[q \div PageTokens + 1]) /\ p \in Indices(op.pend[i].pages)
    BY <1>3, <1>9, <2>1 DEF PageOf
  <2>3. v.from <= q /\ q < v.from + Len(op.in[v.seq])
    BY <1>3, <2>1
  <2> QED BY <2>1, <2>2, <2>3, WrittenAlone
<1>11. f <= q /\ q < f + l /\ PageOf(r.pages, m) = PageOf(r.pages, q)
  BY <1>1, <1>3, <1>4, <1>10
<1>12. m = q
  BY <1>3, <1>4, <1>6, <1>11, SameRow
<1> QED BY <1>4, <1>5, <1>11, <1>12

\* A row that is appended is written by its append alone.
LEMMA OneWriter ==
    ASSUME PagedInv, NEW i \in DOMAIN op.pend, NEW r, r = op.pend[i],
           NEW n \in 1 .. MaxPos, n <= Len(op.in[r.seq]), NEW q \in Nat, q = r.from + n - 1
    PROVE  Writers(PageOf(r.pages, q), q % PageTokens) = {<<r, n>>}
<1>1. PICK f, l, p, o : f = r.from /\ l = Len(op.in[r.seq]) /\ p = PageOf(r.pages, q)
                        /\ o = q % PageTokens
  OBVIOUS
<1>2. f \in Nat /\ l \in Nat /\ n \in Nat
  <2>1. f \in Nat /\ l \in Nat
    BY <1>1, PendPages
  <2> QED BY <2>1
<1>3. n <= l /\ q = f + n - 1
  BY <1>1
<1>4. f <= q /\ q < f + l
  BY <1>2, <1>3
<1>5. <<r, n>> \in Writers(p, o)
  <2>1. PICK w : w = <<r, n>>
    OBVIOUS
  <2>2. r \in Elems(op.pend)
    BY DEF Elems
  <2>3. w \in Elems(op.pend) \X (1 .. MaxPos) /\ w[1] = r /\ w[2] = n
    BY <2>1, <2>2
  <2>4. q = w[1].from + w[2] - 1 /\ w[2] <= Len(op.in[w[1].seq])
    BY <2>3
  <2>5. Index(w[1].pages[q \div PageTokens + 1]) = p /\ q % PageTokens = o
    BY <1>1, <2>3 DEF PageOf
  <2>6. w \in Writers(p, o)
    BY <2>3, <2>4, <2>5 DEF Writers
  <2> QED BY <2>1, <2>6
<1>6. ASSUME NEW w \in Writers(p, o)
      PROVE  w = <<r, n>>
  <2>1. PICK k \in DOMAIN op.pend : \E j \in 1 .. MaxPos : \E m \in Nat :
           /\ w = <<op.pend[k], j>>
           /\ m = op.pend[k].from + j - 1
           /\ op.pend[k].from <= m
           /\ m < op.pend[k].from + Len(op.in[op.pend[k].seq])
           /\ p = PageOf(op.pend[k].pages, m) /\ o = m % PageTokens
    BY WriterIs
  <2>2. PICK j \in 1 .. MaxPos : \E m \in Nat :
           /\ w = <<op.pend[k], j>>
           /\ m = op.pend[k].from + j - 1
           /\ op.pend[k].from <= m
           /\ m < op.pend[k].from + Len(op.in[op.pend[k].seq])
           /\ p = PageOf(op.pend[k].pages, m) /\ o = m % PageTokens
    BY <2>1
  <2>3. PICK m \in Nat :
           /\ w = <<op.pend[k], j>>
           /\ m = op.pend[k].from + j - 1
           /\ op.pend[k].from <= m
           /\ m < op.pend[k].from + Len(op.in[op.pend[k].seq])
           /\ p = PageOf(op.pend[k].pages, m) /\ o = m % PageTokens
    BY <2>2
  <2>4. k = i
    <3>1. PICK v : v = op.pend[k]
      OBVIOUS
    <3>2. p = Index(v.pages[m \div PageTokens + 1])
      BY <2>3, <3>1 DEF PageOf
    <3>3. v.from <= m /\ m < v.from + Len(op.in[v.seq])
      BY <2>3, <3>1, SMTT(30)
    <3>4. p = Index(r.pages[q \div PageTokens + 1]) /\ r.from <= q /\ q < r.from + Len(op.in[r.seq])
      BY <1>1, <1>4, SMTT(30) DEF PageOf
    <3>5. p \in Indices(op.pend[i].pages)
      BY <3>4, WrittenAt
    <3> QED BY <3>1, <3>2, <3>3, <3>5, WrittenAlone, SMTT(30)
  <2>5. /\ w = <<r, j>> /\ m = f + j - 1 /\ f <= m /\ m < f + l
        /\ PageOf(r.pages, m) = PageOf(r.pages, q) /\ m % PageTokens = q % PageTokens
    BY <1>1, <2>3, <2>4
  <2>6. m = q
    BY <1>1, <1>4, <2>5, SameRow, SMTT(30)
  <2>7. j = n
    BY <1>2, <1>3, <2>5, <2>6
  <2> QED BY <2>5, <2>7
<1> QED BY <1>1, <1>5, <1>6

\* The rows of a table are not written.
LEMMA TableUnwritten ==
    ASSUME PagedInv, NEW x \in DOMAIN tables, NEW m \in Nat, m < tables[x].len
    PROVE  Writers(PageOf(tables[x].pages, m), m % PageTokens) = {}
<1> SUFFICES ASSUME NEW w \in Writers(PageOf(tables[x].pages, m), m % PageTokens) PROVE FALSE
  OBVIOUS
<1>1. PICK p, ps, n : p = PageOf(tables[x].pages, m) /\ ps = tables[x].pages /\ n = tables[x].len
  OBVIOUS
<1>2. PICK k \in DOMAIN op.pend : \E j \in 1 .. MaxPos : \E q \in Nat :
         /\ op.pend[k].from <= q
         /\ q < op.pend[k].from + Len(op.in[op.pend[k].seq])
         /\ p = PageOf(op.pend[k].pages, q)
  BY <1>1, WriterIs
<1>3. PICK q \in Nat :
         /\ op.pend[k].from <= q
         /\ q < op.pend[k].from + Len(op.in[op.pend[k].seq])
         /\ p = PageOf(op.pend[k].pages, q)
  BY <1>2
<1>4. ps \in Seq(Handles) /\ n \in Nat /\ Len(ps) = DivCeil(n, PageTokens)
  BY <1>1, TableTail DEF Sane, Tables, Fits
<1>5. m < n
  BY <1>1
<1>6. m \div PageTokens + 1 \in 1 .. DivCeil(n, PageTokens)
  <2>1. n \in Nat
    BY <1>4
  <2> QED BY <1>5, <2>1, PlaceIs
<1>7. PICK j : j = m \div PageTokens + 1
  OBVIOUS
<1>8. j \in DOMAIN ps /\ j \in 1 .. Len(ps)
  BY <1>4, <1>6, <1>7
<1>9. p = Index(ps[j]) /\ p \in Indices(ps)
  BY <1>1, <1>7, <1>8, IndicesIs DEF PageOf
<1>10. PICK r : r = op.pend[k]
  OBVIOUS
<1>11. x = r.seq /\ ~r.cow
  <2>1. p = Index(r.pages[q \div PageTokens + 1]) /\ r.from <= q /\ q < r.from + Len(op.in[r.seq])
    BY <1>3, <1>10 DEF PageOf
  <2>2. p \in Indices(tables[x].pages)
    BY <1>1, <1>9, SMTT(30)
  <2> QED BY <1>10, <2>1, <2>2, WrittenAlone
<1>12. r.from = n /\ r.pages = ps \o r.alloc /\ r.alloc \in Seq(Handles)
  BY <1>1, <1>10, <1>11, PendPages DEF Own
<1>13. PICK al, pg : al = r.alloc /\ pg = r.pages
  OBVIOUS
<1>14. pg[j] = ps[j]
  <2>1. ps \in Seq(Handles) /\ al \in Seq(Handles) /\ j \in 1 .. Len(ps) /\ pg = ps \o al
    BY <1>4, <1>8, <1>12, <1>13
  <2>2. Len(ps) \in Nat /\ Len(al) \in Nat
    BY <2>1
  <2> QED BY <2>1, <2>2
<1>15. p = PageOf(r.pages, m)
  BY <1>7, <1>9, <1>13, <1>14 DEF PageOf
<1>16. Writers(p, m % PageTokens) = {}
  BY <1>5, <1>10, <1>12, <1>15, FoundUnwritten
<1> QED BY <1>1, <1>16

\* Nor are those of a prefix.
LEMMA PrefixUnwritten ==
    ASSUME PagedInv, NEW c \in cached, NEW m \in Nat, m < c.table.len
    PROVE  Writers(PageOf(c.table.pages, m), m % PageTokens) = {}
<1> SUFFICES ASSUME NEW w \in Writers(PageOf(c.table.pages, m), m % PageTokens) PROVE FALSE
  OBVIOUS
<1>1. PICK p, ps, n : p = PageOf(c.table.pages, m) /\ ps = c.table.pages /\ n = c.table.len
  OBVIOUS
<1>2. PICK k \in DOMAIN op.pend : \E j \in 1 .. MaxPos : \E q \in Nat :
         /\ op.pend[k].from <= q
         /\ q < op.pend[k].from + Len(op.in[op.pend[k].seq])
         /\ p = PageOf(op.pend[k].pages, q)
  BY <1>1, WriterIs
<1>3. PICK q \in Nat :
         /\ op.pend[k].from <= q
         /\ q < op.pend[k].from + Len(op.in[op.pend[k].seq])
         /\ p = PageOf(op.pend[k].pages, q)
  BY <1>2
<1>4. ps \in Seq(Handles) /\ n \in Nat /\ Len(ps) = DivCeil(n, PageTokens)
  BY <1>1, StoreFacts DEF PagedInv, Counted, Fits
<1>5. m < n /\ n \in Nat
  BY <1>1, <1>4
<1>6. m \div PageTokens + 1 \in 1 .. DivCeil(n, PageTokens)
  BY <1>5, PlaceIs
<1>7. m \div PageTokens + 1 \in DOMAIN ps
  BY <1>4, <1>6
<1>8. p \in Indices(c.table.pages)
  BY <1>1, <1>7, IndicesIs DEF PageOf
<1>9. PICK r : r = op.pend[k]
  OBVIOUS
<1>10. p = Index(r.pages[q \div PageTokens + 1]) /\ r.from <= q /\ q < r.from + Len(op.in[r.seq])
  BY <1>3, <1>9 DEF PageOf
<1> QED BY <1>8, <1>9, <1>10, WrittenAlone

\* Rows that read the same hold the same.
LEMMA HoldsSame ==
    ASSUME NEW d, NEW e, NEW hs, NEW n, NEW x, Holds(d, hs, n, x),
           \A q \in 0 .. n - 1 : RowAt(e, hs, q) = RowAt(d, hs, q)
    PROVE  Holds(e, hs, n, x)
BY DEF Holds

\* The rows after the kernel: what the place's writer computed, or what was there.
LEMMA ForwardAt ==
    ASSUME PagedInv, Forward, NEW hs \in Seq(Handles), NEW q \in Nat,
           q \div PageTokens + 1 \in DOMAIN hs,
           NEW W, W = Writers(PageOf(hs, q), q % PageTokens)
    PROVE  /\ W = {} => RowAt(dev', hs, q) = RowAt(dev, hs, q)
           /\ \A r, n : W = {<<r, n>>} => RowAt(dev', hs, q) = Computed(r, n)
<1>1. PICK p, o, n : p = PageOf(hs, q) /\ o = q % PageTokens /\ n = PageTokens
  OBVIOUS
<1>2. p \in Pages
  BY <1>1 DEF PageOf, Handles, Index
<1>3. o \in 0 .. PageTokens - 1
  <2>1. n \in Nat \ {0}
    BY <1>1, PageAssumption
  <2>2. q % n \in 0 .. n - 1
    BY <2>1, DivNext
  <2> QED BY <1>1, <2>2
<1>4. RowAt(dev', hs, q) = dev'[p].rows[o] /\ RowAt(dev, hs, q) = dev[p].rows[o]
  BY <1>1 DEF RowAt, PageOf
<1>5. PICK F : F = [x \in Pages |-> [y \in 0 .. PageTokens - 1 |->
                    IF Writers(x, y) = {} THEN dev[x].rows[y]
                    ELSE LET w == CHOOSE w \in Writers(x, y) : TRUE
                         IN  Computed(w[1], w[2])]]
  OBVIOUS
<1>6. dev'[p].rows = F[p]
  <2>1. dev'[p] = [dev[p] EXCEPT !.rows =
                 [y \in 0 .. PageTokens - 1 |->
                    IF Writers(p, y) = {} THEN dev[p].rows[y]
                    ELSE LET w == CHOOSE w \in Writers(p, y) : TRUE
                         IN  Computed(w[1], w[2])]]
    BY <1>2 DEF Forward
  <2>2. F[p] = [y \in 0 .. PageTokens - 1 |->
                    IF Writers(p, y) = {} THEN dev[p].rows[y]
                    ELSE LET w == CHOOSE w \in Writers(p, y) : TRUE
                         IN  Computed(w[1], w[2])]
    BY <1>2, <1>5
  <2>3. dev'[p] = [dev[p] EXCEPT !.rows = F[p]]
    BY <2>1, <2>2
  <2>4. PICK e : e = dev[p]
    OBVIOUS
  <2>5. e = [gen |-> e.gen, rows |-> e.rows]
    BY <1>2, <2>4 DEF PagedInv, Mirrors, DevPages
  <2>6. dev'[p] = [e EXCEPT !.rows = F[p]]
    BY <2>3, <2>4
  <2> QED BY <2>5, <2>6
<1>7. F[p][o] = IF Writers(p, o) = {} THEN dev[p].rows[o]
                ELSE LET w == CHOOSE w \in Writers(p, o) : TRUE
                     IN  Computed(w[1], w[2])
  BY <1>2, <1>3, <1>5
<1>8. W = Writers(p, o)
  BY <1>1
<1>9. W = {} => RowAt(dev', hs, q) = RowAt(dev, hs, q)
  BY <1>4, <1>6, <1>7, <1>8
<1>10. ASSUME NEW r, NEW k, W = {<<r, k>>}
       PROVE  RowAt(dev', hs, q) = Computed(r, k)
  <2>1. PICK v : v = <<r, k>>
    OBVIOUS
  <2>2. (CHOOSE w \in W : TRUE) = v /\ W # {}
    BY <1>10, <2>1
  <2>3. F[p][o] = Computed(v[1], v[2])
    BY <1>7, <1>8, <2>2
  <2>4. v[1] = r /\ v[2] = k
    BY <2>1
  <2> QED BY <1>4, <1>6, <2>3, <2>4
<1> QED BY <1>9, <1>10

\* An element of the second of two joined sequences.
LEMMA JoinedPast ==
    ASSUME NEW S, NEW x \in Seq(S), NEW y \in Seq(S), NEW j \in Nat,
           j > Len(x), j <= Len(x) + Len(y)
    PROVE  (x \o y)[j] = y[j - Len(x)]
<1>1. Len(x) \in Nat /\ Len(y) \in Nat
  OBVIOUS
<1>2. j \in 1 .. Len(x) + Len(y)
  BY <1>1
<1> QED BY <1>1, <1>2

\* The first f tokens of a text and the next n are its first f + n.
LEMMA Continues ==
    ASSUME NEW x \in Seq(Tokens), NEW y \in Seq(Tokens), NEW f \in Nat, Next1(x, f, y),
           NEW n \in Nat, 1 <= n, n <= Len(y)
    PROVE  /\ SubSeq(x, 1, f) \o SubSeq(y, 1, n) = SubSeq(x, 1, f + n)
           /\ f = 0 => <<>> \o SubSeq(y, 1, n) = SubSeq(x, 1, f + n)
<1>1. PICK l, m : l = Len(y) /\ m = Len(x)
  OBVIOUS
<1>2. l \in Nat /\ m \in Nat /\ f + l <= m /\ y = SubSeq(x, f + 1, f + l) /\ n <= l
  BY <1>1 DEF Next1
<1>3. \A j \in 1 .. l : y[j] = x[f + j]
  <2> SUFFICES ASSUME NEW j \in 1 .. l PROVE y[j] = x[f + j]
    OBVIOUS
  <2>1. PICK z : z = SubSeq(x, f + 1, f + l)
    OBVIOUS
  <2>2. z[j] = x[f + j]
    BY <1>1, <1>2, <2>1
  <2> QED BY <1>2, <2>1, <2>2
<1>4. PICK a, b, c : a = SubSeq(x, 1, f) /\ b = SubSeq(y, 1, n) /\ c = SubSeq(x, 1, f + n)
  OBVIOUS
<1>5. f <= m /\ f + n \in Nat /\ f + n <= m
  BY <1>2
<1>6. a \in Seq(Tokens) /\ Len(a) = f /\ \A j \in 1 .. f : a[j] = x[j]
  BY <1>1, <1>4, <1>5
<1>7. b \in Seq(Tokens) /\ Len(b) = n /\ \A j \in 1 .. n : b[j] = y[j]
  <2>1. b = SubSeq(y, 1, n) /\ n \in Nat /\ n <= Len(y)
    BY <1>4
  <2> QED BY <2>1
<1>8. c \in Seq(Tokens) /\ Len(c) = f + n /\ \A j \in 1 .. f + n : c[j] = x[j]
  BY <1>1, <1>4, <1>5
<1>9. a \o b \in Seq(Tokens) /\ Len(a \o b) = f + n
  <2>1. a \in Seq(Tokens) /\ b \in Seq(Tokens) /\ Len(a) = f /\ Len(b) = n
    BY <1>6, <1>7
  <2>2. a \o b \in Seq(Tokens) /\ Len(a \o b) = Len(a) + Len(b)
    BY <2>1, SMTT(60)
  <2> QED BY <2>1, <2>2
<1>10. ASSUME NEW j \in 1 .. f + n
       PROVE  (a \o b)[j] = c[j]
  <2>1. c[j] = x[j]
    BY <1>8
  <2>2. CASE j <= f
    <3>1. (a \o b)[j] = a[j] /\ a[j] = x[j]
      BY <1>6, <1>7, <2>2
    <3> QED BY <2>1, <3>1
  <2>3. CASE ~(j <= f)
    <3>1. j - f \in 1 .. n /\ j - f \in 1 .. l /\ f + (j - f) = j
      BY <1>2, <2>3
    <3>2. (a \o b)[j] = b[j - f]
      <4>1. a \in Seq(Tokens) /\ b \in Seq(Tokens) /\ Len(a) = f /\ Len(b) = n
        BY <1>6, <1>7
      <4>2. j \in Nat /\ j <= Len(a) + Len(b) /\ j > Len(a)
        BY <2>3, <4>1
      <4>3. (a \o b)[j] = b[j - Len(a)]
        BY <4>1, <4>2, JoinedPast
      <4> QED BY <4>1, <4>3
    <3>3. b[j - f] = y[j - f]
      BY <1>7, <3>1
    <3>4. y[j - f] = x[f + (j - f)]
      BY <1>3, <3>1
    <3> QED BY <2>1, <3>1, <3>2, <3>3, <3>4
  <2> QED BY <2>2, <2>3
<1>11. a \o b = c
  <2>1. PICK d : d = a \o b
    OBVIOUS
  <2>2. d \in Seq(Tokens) /\ c \in Seq(Tokens) /\ Len(d) = Len(c) /\ Len(c) = f + n
    BY <1>8, <1>9, <2>1
  <2>3. \A j \in 1 .. Len(d) : d[j] = c[j]
    BY <1>10, <2>1, <2>2
  <2>4. d = c
    BY <2>2, <2>3, SeqEqual
  <2> QED BY <2>1, <2>4
<1>12. f = 0 => a = <<>>
  BY <1>6, EmptySeq
<1> QED BY <1>4, <1>11, <1>12

\* A computed row was computed from the tokens up to its own.
LEMMA ComputedText ==
    ASSUME PagedInv, RowInv, op.stage = "kernel", NEW i \in DOMAIN op.pend, NEW r, r = op.pend[i],
           NEW n \in 1 .. MaxPos, n <= Len(op.in[r.seq])
    PROVE  /\ Computed(r, n) = SubSeq(Text(r.seq), 1, r.from + n)
           /\ r.from + Len(op.in[r.seq]) <= Len(Text(r.seq))
<1>1. PICK f, x, y, hs : f = r.from /\ x = Text(r.seq) /\ y = op.in[r.seq] /\ hs = r.pages
  OBVIOUS
<1>2. f \in Nat /\ y \in Seq(Tokens) /\ r.seq \in Sessions /\ r.seq \in PendSeqs
      /\ f = tables[r.seq].len
  BY <1>1, PendPages
<1>3. x \in Seq(Tokens)
  BY <1>1, <1>2, TextIs
<1>4. Next1(x, f, y)
  <2>1. Ahead
    BY DEF Ahead, Working
  <2> QED BY <1>1, <1>2, <2>1 DEF RowInv, InText
<1>5. Holds(dev, hs, f, x)
  <2>1. Holds(dev, hs, Computing(r), x)
    BY <1>1 DEF RowInv, PendsHold
  <2> QED BY <1>1, <2>1 DEF Computing
<1>6. n \in Nat /\ 1 <= n /\ n <= Len(y)
  BY <1>1, SizeAssumption, SMTT(60)
<1>7. /\ SubSeq(x, 1, f) \o SubSeq(y, 1, n) = SubSeq(x, 1, f + n)
      /\ f = 0 => <<>> \o SubSeq(y, 1, n) = SubSeq(x, 1, f + n)
  BY <1>2, <1>3, <1>4, <1>6, Continues, ZenonT(60)
<1>8. Computed(r, n) = (IF f = 0 THEN <<>> ELSE RowAt(dev, hs, f - 1)) \o SubSeq(y, 1, n)
  BY <1>1 DEF Computed
<1>9. f # 0 => RowAt(dev, hs, f - 1) = SubSeq(x, 1, f)
  <2> SUFFICES ASSUME f # 0 PROVE RowAt(dev, hs, f - 1) = SubSeq(x, 1, f)
    OBVIOUS
  <2>1. f - 1 \in 0 .. f - 1 /\ f - 1 + 1 = f
    BY <1>2
  <2>2. RowAt(dev, hs, f - 1) = SubSeq(x, 1, f - 1 + 1)
    BY <1>5, <2>1 DEF Holds
  <2> QED BY <2>1, <2>2
<1>10. f + Len(y) <= Len(x)
  BY <1>4 DEF Next1
<1>11. CASE f = 0
  <2>1. Computed(r, n) = <<>> \o SubSeq(y, 1, n)
    BY <1>8, <1>11
  <2> QED BY <1>1, <1>7, <1>10, <1>11, <2>1
<1>12. CASE f # 0
  <2>1. Computed(r, n) = SubSeq(x, 1, f) \o SubSeq(y, 1, n)
    BY <1>8, <1>9, <1>12
  <2> QED BY <1>1, <1>7, <1>10, <2>1, ZenonT(30)
<1> QED BY <1>11, <1>12

\* No append is longer than the capacity.
LEMMA AppendFits ==
    ASSUME PagedInv, SizeInv, op.stage = "kernel", NEW i \in DOMAIN op.pend, NEW r, r = op.pend[i]
    PROVE  Len(op.in[r.seq]) <= MaxPos
<1>1. PICK s, l : s = r.seq /\ l = Len(op.in[r.seq])
  OBVIOUS
<1>2. /\ s \in Elems(op.rows) /\ s \in PendSeqs /\ l \in Nat /\ tables[s].len \in Nat
  BY <1>1, PendPages
<1>3. Coming(s) = l
  BY <1>1, <1>2 DEF Coming
<1>4. CASE op.kind = "batchDecode"
  <2>1. Appends(s)
    BY <1>2 DEF PagedInv, OpSound, Appending
  <2>2. l = 1
    BY <1>1, <1>4, <2>1 DEF Appends
  <2>3. MaxPos \in Nat \ {0}
    BY SizeAssumption
  <2> QED BY <1>1, <2>2, <2>3
<1>5. CASE op.kind # "batchDecode"
  <2>1. Ahead
    BY DEF Ahead, Working
  <2>2. Room(s)
    BY <1>2, <1>5, <2>1 DEF SizeInv, Roomy
  <2>3. tables[s].len + l <= MaxPos
    BY <1>3, <2>2 DEF Room
  <2>4. PICK n, m : n = tables[s].len /\ m = MaxPos
    OBVIOUS
  <2>5. n \in Nat /\ l \in Nat /\ m \in Nat /\ n + l <= m
    BY <1>2, <2>3, <2>4, SizeAssumption
  <2>6. l <= m
    BY <2>5
  <2> QED BY <1>1, <2>4, <2>6
<1> QED BY <1>4, <1>5

\* After the kernel an append has the rows it found and those it computed.
LEMMA ForwardPend ==
    ASSUME PagedInv, SizeInv, RowInv, Forward, NEW i \in DOMAIN op.pend, NEW r, r = op.pend[i]
    PROVE  Holds(dev', r.pages, r.from + Len(op.in[r.seq]), Text(r.seq))
<1>1. PICK f, l, x, hs : f = r.from /\ l = Len(op.in[r.seq]) /\ x = Text(r.seq) /\ hs = r.pages
  OBVIOUS
<1>2. f \in Nat /\ l \in Nat /\ hs \in Seq(Handles) /\ Len(hs) = DivCeil(f + l, PageTokens)
  BY <1>1, PendPages
<1>3. op.stage = "kernel"
  BY DEF Forward
<1>4. l <= MaxPos /\ MaxPos \in Nat \ {0}
  BY <1>1, <1>3, AppendFits, SizeAssumption
<1>5. f + l <= Len(x)
  <2>1. x \in Seq(Tokens) /\ f = tables[r.seq].len /\ r.seq \in PendSeqs
    BY <1>1, PendPages, TextIs
  <2>2. Ahead
    BY <1>3 DEF Ahead, Working
  <2>3. Next1(x, f, op.in[r.seq])
    BY <1>1, <2>1, <2>2 DEF RowInv, InText
  <2> QED BY <1>1, <2>3 DEF Next1
<1>6. Holds(dev, hs, f, x)
  <2>1. Holds(dev, hs, Computing(r), x)
    BY <1>1, <1>3 DEF RowInv, PendsHold
  <2> QED BY <1>1, <1>3, <2>1 DEF Computing
<1>7. ASSUME NEW q \in 0 .. f + l - 1
      PROVE  RowAt(dev', hs, q) = SubSeq(x, 1, q + 1)
  <2>0. f \in Nat /\ l \in Nat
    BY <1>2
  <2>1. q \in Nat /\ q < f + l /\ f + l \in Nat
    BY <2>0
  <2>2. q \div PageTokens + 1 \in 1 .. DivCeil(f + l, PageTokens)
    BY <2>1, PlaceIs
  <2>3. q \div PageTokens + 1 \in DOMAIN hs
    BY <1>2, <2>2
  <2>4. PICK W : W = Writers(PageOf(hs, q), q % PageTokens)
    OBVIOUS
  <2>5. /\ W = {} => RowAt(dev', hs, q) = RowAt(dev, hs, q)
        /\ \A v, n : W = {<<v, n>>} => RowAt(dev', hs, q) = Computed(v, n)
    BY <1>2, <2>1, <2>3, <2>4, ForwardAt
  <2>6. CASE q < f
    <3>1. q < r.from
      BY <1>1, <2>6
    <3>2. W = {}
      BY <1>1, <2>1, <2>4, <3>1, FoundUnwritten
    <3>3. q \in 0 .. f - 1
      BY <2>0, <2>1, <2>6
    <3>4. RowAt(dev, hs, q) = SubSeq(x, 1, q + 1)
      BY <1>6, <3>3 DEF Holds
    <3> QED BY <2>5, <3>2, <3>4
  <2>7. CASE ~(q < f)
    <3>1. PICK n : n = q - f + 1
      OBVIOUS
    <3>2. n \in Nat /\ 1 <= n /\ n <= l /\ q = f + n - 1 /\ q + 1 = f + n
      BY <2>0, <2>1, <2>7, <3>1
    <3>3. PICK m : m = MaxPos
      OBVIOUS
    <3>4. n \in 1 .. m
      <4>1. m \in Nat /\ l <= m
        BY <1>4, <3>3
      <4> QED BY <2>0, <3>2, <4>1
    <3>5. n \in 1 .. MaxPos /\ n <= Len(op.in[r.seq]) /\ q = r.from + n - 1
      BY <1>1, <3>2, <3>3, <3>4
    <3>6. W = {<<r, n>>}
      BY <1>1, <2>1, <2>4, <3>5, OneWriter
    <3>7. Computed(r, n) = SubSeq(x, 1, f + n)
      BY <1>1, <1>3, <3>5, ComputedText
    <3> QED BY <2>5, <3>2, <3>6, <3>7
  <2> QED BY <2>6, <2>7
<1>8. Holds(dev', hs, f + l, x)
  <2>1. PICK g : g = f + l
    OBVIOUS
  <2>2. g <= Len(x) /\ \A q \in 0 .. g - 1 : RowAt(dev', hs, q) = SubSeq(x, 1, q + 1)
    <3>1. f \in Nat /\ l \in Nat
      BY <1>2
    <3>2. g - 1 = f + l - 1
      BY <2>1, <3>1
    <3> QED BY <1>5, <1>7, <2>1, <3>2
  <2>3. Holds(dev', hs, g, x)
    BY <2>2 DEF Holds
  <2> QED BY <2>1, <2>3
<1> QED BY <1>1, <1>8

\* Tables and prefix keep their rows.
LEMMA ForwardKeeps ==
    ASSUME PagedInv, RowInv, Forward, UNCHANGED <<tables, cached>>, \A s : Text(s)' = Text(s)
    PROVE  TablesHold' /\ PrefixHolds'
<1>1. TablesHold'
  <2> SUFFICES ASSUME NEW s \in DOMAIN tables
               PROVE  Holds(dev', tables[s].pages, tables[s].len, Text(s))
    BY DEF TablesHold
  <2>1. Holds(dev, tables[s].pages, tables[s].len, Text(s))
    BY DEF RowInv, TablesHold
  <2>2. PICK hs, n : hs = tables[s].pages /\ n = tables[s].len
    OBVIOUS
  <2>3. hs \in Seq(Handles) /\ n \in Nat /\ Len(hs) = DivCeil(n, PageTokens)
    BY <2>2, TableTail DEF Sane, Tables, Fits
  <2>4. ASSUME NEW q \in 0 .. n - 1
        PROVE  RowAt(dev', hs, q) = RowAt(dev, hs, q)
    <3>0. n \in Nat
      BY <2>3
    <3>1. q \in Nat /\ q < n
      BY <3>0
    <3>2. q \div PageTokens + 1 \in 1 .. DivCeil(n, PageTokens)
      BY <3>0, <3>1, PlaceIs
    <3>3. q \div PageTokens + 1 \in DOMAIN hs
      BY <2>3, <3>2
    <3>4. PICK W : W = Writers(PageOf(hs, q), q % PageTokens)
      OBVIOUS
    <3>5. W = {}
      BY <2>2, <3>1, <3>4, TableUnwritten
    <3> QED BY <2>3, <3>1, <3>3, <3>4, <3>5, ForwardAt
  <2> QED BY <2>1, <2>2, <2>4, HoldsSame
<1>2. PrefixHolds'
  <2> SUFFICES ASSUME NEW c \in cached
               PROVE  Holds(dev', c.table.pages, c.table.len, c.toks)
    BY DEF PrefixHolds
  <2>1. Holds(dev, c.table.pages, c.table.len, c.toks)
    BY DEF RowInv, PrefixHolds
  <2>2. PICK hs, n : hs = c.table.pages /\ n = c.table.len
    OBVIOUS
  <2>3. hs \in Seq(Handles) /\ n \in Nat /\ Len(hs) = DivCeil(n, PageTokens)
    BY <2>2, StoreFacts DEF PagedInv, Counted, Fits
  <2>4. ASSUME NEW q \in 0 .. n - 1
        PROVE  RowAt(dev', hs, q) = RowAt(dev, hs, q)
    <3>0. n \in Nat
      BY <2>3
    <3>1. q \in Nat /\ q < n
      BY <3>0
    <3>2. q \div PageTokens + 1 \in 1 .. DivCeil(n, PageTokens)
      BY <3>0, <3>1, PlaceIs
    <3>3. q \div PageTokens + 1 \in DOMAIN hs
      BY <2>3, <3>2
    <3>4. PICK W : W = Writers(PageOf(hs, q), q % PageTokens)
      OBVIOUS
    <3>5. W = {}
      BY <2>2, <3>1, <3>4, PrefixUnwritten
    <3> QED BY <2>3, <3>1, <3>3, <3>4, <3>5, ForwardAt
  <2> QED BY <2>1, <2>2, <2>4, HoldsSame
<1> QED BY <1>1, <1>2

\* Forward keeps RowInv: what it writes continues each text, and nobody else reads it.
LEMMA ForwardRows ==
    ASSUME PagedInv, SizeInv, RowInv, Forward
    PROVE  RowInv'
<1>1. /\ op.stage = "kernel" /\ op' = [op EXCEPT !.stage = "commit"]
      /\ UNCHANGED <<tables, record, cached>> /\ UNCHANGED sessionVars
  BY DEF Forward
<1>2. /\ op'.stage = "commit" /\ op'.kind = op.kind /\ op'.rows = op.rows /\ op'.in = op.in
      /\ op'.todo = op.todo /\ op'.pend = op.pend /\ PendSeqs' = PendSeqs
  BY <1>1, Advances DEF Stages
<1>3. UNCHANGED <<lease, phase, toks, done, pos, solo>>
  BY <1>1 DEF sessionVars
<1>4. Decodes' = Decodes /\ Prefills' = Prefills /\ Ahead /\ Ahead'
  BY <1>1, <1>2 DEF Decodes, Prefills, Ahead, Working
<1>5. \A s : Text(s)' = Text(s)
  BY <1>2, <1>3, <1>4 DEF Text
<1>6. TablesHold' /\ PrefixHolds'
  BY <1>1, <1>5, ForwardKeeps
<1>7. PendsHold'
  <2> SUFFICES ASSUME NEW i \in DOMAIN op.pend
               PROVE  Holds(dev, op.pend[i].pages, Computing(op.pend[i]), Text(op.pend[i].seq))'
    BY <1>2 DEF PendsHold
  <2>1. PICK r : r = op.pend[i]
    OBVIOUS
  <2>2. PICK s : s = r.seq
    OBVIOUS
  <2>3. Holds(dev', r.pages, r.from + Len(op.in[s]), Text(s))
    BY <2>1, <2>2, ForwardPend
  <2>4. op'.pend[i] = r /\ Text(s)' = Text(s)
    BY <1>2, <1>5, <2>1
  <2>5. Computing(r)' = r.from + Len(op.in[s])
    BY <1>2, <2>2 DEF Computing
  <2>6. Holds(dev, r.pages, Computing(r), Text(s))'
    BY <2>3, <2>4, <2>5 DEF Holds
  <2>7. Computing(op.pend[i])' = Computing(r)' /\ op'.pend[i].seq = s /\ Text(op.pend[i].seq)' = Text(s)'
    BY <2>2, <2>4 DEF Computing, Text
  <2> QED BY <2>4, <2>6, <2>7 DEF Holds
<1>8. Recorded' /\ Started'
  BY <1>1, <1>3 DEF RowInv, Recorded, Started
<1>9. Unsettled'
  <2> SUFFICES ASSUME Decodes, NEW s \in Elems(op.rows) \cap DOMAIN tables
               PROVE  tables[s].len <= Len(toks[s])
    BY <1>1, <1>2, <1>3, <1>4 DEF Unsettled
  <2> QED BY <1>1 DEF RowInv, Unsettled
<1>10. Chunk'
  BY <1>2 DEF Chunk
<1>11. InText'
  <2> SUFFICES ASSUME NEW s \in Elems(op.todo) \cup PendSeqs
               PROVE  Next1(Text(s)', tables[s].len, op.in[s])
    BY <1>1, <1>2 DEF InText
  <2>1. Next1(Text(s), tables[s].len, op.in[s])
    BY <1>4 DEF RowInv, InText
  <2> QED BY <1>5, <2>1
<1> QED BY <1>6, <1>7, <1>8, <1>9, <1>10, <1>11 DEF RowInv

\* CommitRow keeps RowInv: what the table gains is what the kernel computed.
LEMMA CommitRowRows ==
    ASSUME PagedInv, RowInv, CommitRow
    PROVE  RowInv'
<1>1. CASE Teardown
  BY <1>1, TeardownRows
<1>2. CASE ~Teardown
  <2>0. PICK r : r = Head(op.pend)
    OBVIOUS
  <2>1. PICK m : m = r.from + Len(op.in[r.seq])
    OBVIOUS
  <2>2. PICK s : s = r.seq
    OBVIOUS
  <2>3. /\ op.stage = "commit" /\ op.pend # <<>>
        /\ DOMAIN tables' = DOMAIN tables
        /\ tables'[s] = [pages |-> r.pages, len |-> m]
        /\ \A x \in DOMAIN tables : x # s => tables'[x] = tables[x]
        /\ op'.pend = Tail(op.pend) /\ PendSeqs' = PendSeqs \ {s}
        /\ op'.stage = "commit" /\ op'.kind = op.kind /\ op'.rows = op.rows
        /\ op'.in = op.in /\ op'.todo = op.todo /\ op.todo = <<>>
        /\ UNCHANGED <<dev, record, cached>> /\ UNCHANGED sessionVars
    BY <1>2, <2>0, <2>1, <2>2, CommitMoves
  <2>4. r = op.pend[1] /\ 1 \in DOMAIN op.pend /\ s \in DOMAIN tables
    BY <2>0, <2>2, <2>3, CommitFacts
  <2>5. UNCHANGED <<lease, phase, toks, done, pos, solo>>
    BY <2>3 DEF sessionVars
  <2>6. Decodes' = Decodes /\ Prefills' = Prefills /\ Ahead /\ Ahead'
    BY <2>3 DEF Decodes, Prefills, Ahead, Working
  <2>7. \A x : Text(x)' = Text(x)
    BY <2>3, <2>5, <2>6 DEF Text
  <2>8. \A i \in DOMAIN op.pend :
           LET v == op.pend[i]
           IN  Holds(dev, v.pages, v.from + Len(op.in[v.seq]), Text(v.seq))
    BY <2>3 DEF RowInv, PendsHold, Computing
  <2>9. TablesHold'
    <3> SUFFICES ASSUME NEW x \in DOMAIN tables
                 PROVE  Holds(dev, tables'[x].pages, tables'[x].len, Text(x))
      BY <2>3, <2>7 DEF TablesHold
    <3>1. CASE x = s
      <4>1. Holds(dev, r.pages, m, Text(s))
        BY <2>1, <2>2, <2>4, <2>8
      <4>2. tables'[s].pages = r.pages /\ tables'[s].len = m
        BY <2>3
      <4> QED BY <3>1, <4>1, <4>2
    <3>2. CASE x # s
      BY <2>3, <3>2 DEF RowInv, TablesHold
    <3> QED BY <3>1, <3>2
  <2>10. PrefixHolds'
    BY <2>3, PrefixStays
  <2>11. PendsHold'
    <3> SUFFICES ASSUME NEW i \in DOMAIN op'.pend
                 PROVE  Holds(dev, op.pend[i].pages, Computing(op.pend[i]), Text(op.pend[i].seq))'
      BY DEF PendsHold
    <3>1. i + 1 \in DOMAIN op.pend /\ op'.pend[i] = op.pend[i + 1]
      BY <2>3, TailPends
    <3>2. PICK v : v = op.pend[i + 1]
      OBVIOUS
    <3>3. PICK y : y = v.seq
      OBVIOUS
    <3>4. Holds(dev, v.pages, v.from + Len(op.in[y]), Text(y))
      BY <2>8, <3>1, <3>2, <3>3
    <3>5. Computing(v)' = v.from + Len(op.in[y]) /\ Text(y)' = Text(y) /\ op'.pend[i] = v
      BY <2>3, <2>7, <3>1, <3>2, <3>3 DEF Computing
    <3>6. Holds(dev, v.pages, Computing(v), Text(y))'
      BY <2>3, <3>4, <3>5 DEF Holds
    <3>7. Computing(op.pend[i])' = Computing(v)' /\ op'.pend[i].seq = y
          /\ Text(op.pend[i].seq)' = Text(y)'
      BY <3>3, <3>5 DEF Computing, Text
    <3> QED BY <3>5, <3>6, <3>7 DEF Holds
  <2>12. Recorded' /\ Started'
    BY <2>3, <2>5 DEF RowInv, Recorded, Started
  <2>13. Unsettled'
    <3> SUFFICES ASSUME Decodes, NEW x \in Elems(op.rows) \cap DOMAIN tables, x \in PendSeqs, x # s
                 PROVE  tables[x].len <= Len(toks[x])
      BY <2>3, <2>5, <2>6 DEF Unsettled
    <3> QED BY DEF RowInv, Unsettled
  <2>14. Chunk'
    BY <2>3 DEF Chunk
  <2>15. InText'
    <3>1. Elems(op'.todo) = {} /\ Elems(op.todo) = {}
      BY <2>3 DEF Elems
    <3> SUFFICES ASSUME NEW x \in PendSeqs, x # s
                 PROVE  Next1(Text(x), tables'[x].len, op.in[x])
      BY <2>3, <2>7, <3>1 DEF InText
    <3>2. Next1(Text(x), tables[x].len, op.in[x])
      BY <2>6 DEF RowInv, InText
    <3>3. x \in DOMAIN tables
      BY PendPages DEF PendSeqs
    <3> QED BY <2>3, <3>2, <3>3
  <2> QED BY <2>9, <2>10, <2>11, <2>12, <2>13, <2>14, <2>15 DEF RowInv
<1> QED BY <1>1, <1>2

\* RowInv holds before there is an engine.
LEMMA StartRows == Init => RowInv
<1> SUFFICES ASSUME Init PROVE RowInv
  OBVIOUS
<1>1. op.kind = "idle" /\ op.stage = "none" /\ DOMAIN op.pend = {}
  BY DEF Init, Idle
<1>2. DOMAIN tables = {} /\ DOMAIN record = {} /\ cached = {}
  BY DEF Init, NoEntries
<1>3. \A s \in Sessions : phase[s] = "new"
  BY DEF Init
<1>4. ~Decodes /\ ~Prefills /\ ~Ahead
  BY <1>1 DEF Decodes, Prefills, Ahead, Working
<1>5. TablesHold /\ PrefixHolds /\ PendsHold /\ Recorded
  BY <1>1, <1>2 DEF TablesHold, PrefixHolds, PendsHold, Recorded
<1> QED BY <1>2, <1>3, <1>4, <1>5 DEF RowInv, Started, Unsettled, Chunk, InText

\* A step that changes nothing keeps RowInv.
LEMMA StutterRows ==
    ASSUME RowInv, UNCHANGED vars
    PROVE  RowInv'
<1>1. /\ UNCHANGED <<dev, tables, record, cached, op>>
      /\ UNCHANGED <<lease, phase, toks, done, pos, solo>>
  BY DEF vars, engineVars, sessionVars
<1>2. /\ Decodes' = Decodes /\ Prefills' = Prefills /\ Ahead' = Ahead /\ PendSeqs' = PendSeqs
  BY <1>1 DEF Decodes, Prefills, Ahead, Working, PendSeqs
<1>3. \A s : Text(s)' = Text(s)
  BY <1>1, <1>2 DEF Text
<1>4. TablesHold' /\ PrefixHolds' /\ Recorded' /\ Started'
  BY <1>1, <1>3 DEF RowInv, TablesHold, PrefixHolds, Recorded, Started
<1>5. PendsHold'
  <2> SUFFICES ASSUME op.stage # "abort", NEW i \in DOMAIN op.pend
               PROVE  Holds(dev, op.pend[i].pages, Computing(op.pend[i]), Text(op.pend[i].seq))'
    BY <1>1 DEF PendsHold
  <2>1. Holds(dev, op.pend[i].pages, Computing(op.pend[i]), Text(op.pend[i].seq))
    BY DEF RowInv, PendsHold
  <2>2. Computing(op.pend[i])' = Computing(op.pend[i]) /\ Text(op.pend[i].seq)' = Text(op.pend[i].seq)
    BY <1>1, <1>2 DEF Computing, Text
  <2> QED BY <1>1, <2>1, <2>2 DEF Holds
<1>6. Unsettled' /\ Chunk'
  BY <1>1, <1>2 DEF RowInv, Unsettled, Chunk
<1>7. InText'
  <2> SUFFICES ASSUME Ahead, NEW s \in Elems(op.todo) \cup PendSeqs
               PROVE  Next1(Text(s)', tables[s].len, op.in[s])
    BY <1>1, <1>2 DEF InText
  <2>1. Next1(Text(s), tables[s].len, op.in[s])
    BY DEF RowInv, InText
  <2> QED BY <1>3, <2>1
<1> QED BY <1>4, <1>5, <1>6, <1>7 DEF RowInv

\* Every step of the specification keeps RowInv.
LEMMA StepRows == PagedInv /\ SizeInv /\ RowInv /\ [Next]_vars => RowInv'
<1> SUFFICES ASSUME PagedInv, SizeInv, RowInv, [Next]_vars PROVE RowInv'
  OBVIOUS
<1>1. CASE UNCHANGED vars
  BY <1>1, StutterRows
<1>2. CASE \E s \in Sessions : EnterPrefill(s) \/ EnterAcquire(s) \/ EnterDecode(s) \/ Drop(s)
  BY <1>2, EnterPrefillRows, EnterAcquireRows, EnterDecodeRows, DropRows
<1>3. CASE \E ss \in SUBSET Sessions : EnterBatch(ss)
  BY <1>3, EnterBatchRows
<1>4. CASE Build \/ PastThreshold \/ Select \/ Adopt \/ CheckCursor \/ EnterRows
  BY <1>4, BuildRows, PastThresholdRows, SelectRows, AdoptRows, CheckCursorRows, EnterRowsRows
<1>5. CASE PlanRow \/ DeviceFails \/ EvictPrefix \/ PoolExhausted \/ Forward \/ KernelFails
  BY <1>5, PlanRowRows, DeviceFailsRows, EvictPrefixRows, PoolExhaustedRows, ForwardRows,
     KernelFailsRows
<1>6. CASE CommitRow \/ Finish \/ AbortRow \/ ReleaseFails \/ EndAbort
  BY <1>6, CommitRowRows, FinishRows, AbortRowRows, ReleaseFailsRows, EndAbortRows
<1> QED BY <1>1, <1>2, <1>3, <1>4, <1>5, <1>6 DEF Next

\* Between operations the invariant says what RowsExact says.
LEMMA RowsAre == RowInv => RowsExact
<1> SUFFICES ASSUME RowInv, op = Idle PROVE RowsExact
  BY DEF RowsExact
<1>1. \A s : Text(s) = toks[s]
  BY DEF Idle, Text, Decodes
<1>2. ASSUME NEW s \in DOMAIN tables, NEW q \in 0 .. tables[s].len - 1
      PROVE  RowAt(dev, tables[s].pages, q) = SubSeq(toks[s], 1, q + 1)
  BY <1>1 DEF RowInv, TablesHold, Holds
<1>3. ASSUME NEW c \in cached, NEW q \in 0 .. c.table.len - 1
      PROVE  RowAt(dev, c.table.pages, q) = SubSeq(c.toks, 1, q + 1)
  BY DEF RowInv, PrefixHolds, Holds
<1> QED BY <1>2, <1>3 DEF RowsExact

\* Between operations every row of a live sequence, and of the retained prefix, was
\* computed from the tokens it stands for (the callers of CudaKvPagePool in
\* inference.rs), whatever was adopted, copied, evicted, aborted or batched before.
THEOREM RowsAlwaysExact == Spec => []RowsExact
<1>1. Init => PagedInv /\ SizeInv /\ RowInv
  BY StartInv, StartSize, StartRows
<1>2. PagedInv /\ SizeInv /\ RowInv /\ [Next]_vars => (PagedInv /\ SizeInv /\ RowInv)'
  BY StepInv, StepSize, StepRows
<1>3. PagedInv /\ SizeInv /\ RowInv => RowsExact
  BY RowsAre
<1> QED BY <1>1, <1>2, <1>3, PTL DEF Spec
=============================================================================
