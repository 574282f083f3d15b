---------------------------- MODULE CudaPagedKv ----------------------------
(***************************************************************************)
(* The paged KV cache of the resident CUDA engine: ResidentCudaSlot of     *)
(* src/inference.rs over the pool of CudaKvPages, the sequence slots of    *)
(* src/inference/cuda_sequence.rs and the device pages of                  *)
(* src/cuda_resident.rs.                                                   *)
(*                                                                         *)
(* An operation (a prefill chunk, a decode step, a batch of either, the    *)
(* drop of a session) holds the resident mutex from beginning to end; op   *)
(* is the operation that holds it and how far it has come.  The content of *)
(* a KV row is the sequence of tokens it was computed from: the kernel     *)
(* appends the row's token to what it reads in the row before.             *)
(*                                                                         *)
(* The engine's caller never looks inside: a session only learns that its  *)
(* step advanced, was declined (it goes on on the CPU) or failed.          *)
(*                                                                         *)
(* A definition X_Suffix right before X is X with a plausible mistake in   *)
(* it; no other definition uses it.                                        *)
(***************************************************************************)
EXTENDS CudaKvPages

CONSTANTS
    Sessions,  \* LlamaInferenceSession values, each with its own sequence id
    Nobody,    \* a vacant sequence slot
    Tokens,    \* token ids
    Slots,     \* capacity of FixedCudaSequenceSlots
    MaxPos,    \* min(engine.max_pos(), SPLITK_THRESHOLD)
    MaxTokens  \* bound on the tokens of a session, prompt and output

ASSUME SessionAssumption == IsFiniteSet(Sessions) /\ Nobody \notin Sessions
ASSUME SizeAssumption ==
    /\ Slots \in 1 .. 8
    /\ MaxPos \in Nat \ {0}
    /\ MaxTokens \in Nat
    /\ CapacityPages = DivCeil(MaxPos * Slots, PageTokens)

VARIABLES
    up,      \* the mutex's Option holds an engine
    pool,    \* CudaKvPagePool
    dev,     \* device pages: their generation (0 for none) and their rows
    tables,  \* page table of every sequence that holds a slot
    record,  \* tokens known to be in the rows of a sequence
    cached,  \* the retained prefix, as a set of at most one
    slots,   \* FixedCudaSequenceSlots
    lease,   \* cuda_sequence_lease of a session, as a set of at most one
    phase,   \* where the request of a session stands
    toks,    \* the session's tokens: its prompt, then the inputs it decoded
    done,    \* prompt tokens prefilled on the device (tokens_done)
    pos,     \* kv_cache.position
    solo,    \* streams of a declined batch that still have to step alone
    op       \* the operation that holds the mutex

engineVars  == <<pool, dev, tables, record, cached, slots>>
sessionVars == <<lease, phase, toks, done, pos, solo>>
vars        == <<up, engineVars, sessionVars, op>>

Phases == {"new", "prefill", "decode", "failed", "ended"}
Prefix == UNION {[1 .. n -> Tokens] : n \in 0 .. MaxPos}
Prompts == {p \in Prefix : Len(p) >= 2}
NoPage == [gen |-> 0, rows |-> [o \in 0 .. PageTokens - 1 |-> <<>>]]

Put(f, x, v)   == [y \in DOMAIN f \cup {x} |-> IF y = x THEN v ELSE f[y]]
Without(f, x)  == [y \in DOMAIN f \ {x} |-> f[y]]
NoEntries      == [s \in {} |-> <<>>]

Idle == [kind |-> "idle", stage |-> "none", rows |-> <<>>, in |-> NoEntries,
         todo |-> <<>>, pend |-> <<>>, err |-> "none"]

\* An operation on the sequences rows, with the tokens in[s] to append for s.
Begun(kind, rows, in) ==
    [kind |-> kind, stage |-> "enter", rows |-> rows, in |-> in,
     todo |-> rows, pend |-> <<>>, err |-> "none"]

Single == op.kind \in {"prefill", "decode", "acquire"}
This   == op.rows[1]

TypeOK ==
    /\ up \in BOOLEAN
    /\ pool \in Pools
    /\ dev \in [Pages -> [gen : Nat, rows : [0 .. PageTokens - 1 -> Seq(Tokens)]]]
    /\ DOMAIN tables \in SUBSET Sessions
    /\ \A s \in DOMAIN tables :
          /\ tables[s] \in Tables
          /\ Len(tables[s].pages) = DivCeil(tables[s].len, PageTokens)
    /\ DOMAIN record \in SUBSET DOMAIN tables
    /\ Cardinality(cached) <= 1
    /\ slots \in [1 .. Slots -> [gen : Nat, holder : Sessions \cup {Nobody}]]
    /\ \A s \in Sessions : lease[s] \in SUBSET [slot : 1 .. Slots, gen : Nat]
    /\ phase \in [Sessions -> Phases]
    /\ solo \in SUBSET Sessions
    /\ \A s \in Sessions : pos[s] <= Len(toks[s]) /\ done[s] <= Len(toks[s])
    /\ op.kind \in {"idle", "prefill", "decode", "acquire", "batchPrefill", "batchDecode"}
    /\ op.stage \in {"none", "enter", "cursor", "prepare", "kernel", "commit", "abort"}

\* A new or torn down engine: no page, no table, no prefix, every slot vacant
\* at generation 0.
FreshEngine ==
    /\ pool' = EmptyPool
    /\ dev' = [p \in Pages |-> NoPage]
    /\ tables' = NoEntries
    /\ record' = NoEntries
    /\ cached' = {}
    /\ slots' = [i \in 1 .. Slots |-> [gen |-> 0, holder |-> Nobody]]

Init ==
    /\ up = FALSE
    /\ pool = EmptyPool
    /\ dev = [p \in Pages |-> NoPage]
    /\ tables = NoEntries
    /\ record = NoEntries
    /\ cached = {}
    /\ slots = [i \in 1 .. Slots |-> [gen |-> 0, holder |-> Nobody]]
    /\ lease = [s \in Sessions |-> {}]
    /\ phase = [s \in Sessions |-> "new"]
    /\ toks = [s \in Sessions |-> <<>>]
    /\ done = [s \in Sessions |-> 0]
    /\ pos = [s \in Sessions |-> 0]
    /\ solo = {}
    /\ op = Idle

-----------------------------------------------------------------------------
(* The requests: which operation a session's job starts next. *)

\* A request's prompt, once its job runs for the first time.
PromptOf(s) == IF phase[s] = "new" THEN Prompts ELSE {toks[s]}

Prefilling(s, prompt) ==
    /\ phase[s] \in {"new", "prefill"}
    /\ toks' = [toks EXCEPT ![s] = prompt]
    /\ phase' = [phase EXCEPT ![s] = "prefill"]
    /\ UNCHANGED <<lease, done, pos, solo>>

Fail(ss) == phase' = [s \in Sessions |-> IF s \in ss THEN "failed" ELSE phase[s]]

\* A chunk of the prompt, or all of it.
EnterPrefill(s) ==
    /\ op = Idle
    /\ \E prompt \in PromptOf(s) : \E end \in done[s] + 1 .. Len(prompt) :
          /\ Prefilling(s, prompt)
          /\ op' = Begun("prefill", <<s>>,
                         [x \in {s} |-> SubSeq(prompt, done[s] + 1, end)])
    /\ UNCHANGED <<up, engineVars>>

\* A sibling of a batched prefill takes its slot before it has any row.
EnterAcquire(s) ==
    /\ op = Idle
    /\ done[s] = 0
    /\ up
    /\ \E prompt \in PromptOf(s) : Prefilling(s, prompt)
    /\ op' = Begun("acquire", <<s>>, [x \in {s} |-> <<>>])
    /\ UNCHANGED <<up, engineVars>>

EnterDecode(s) ==
    /\ op = Idle
    /\ phase[s] = "decode"
    /\ Len(toks[s]) < MaxTokens
    /\ \E t \in Tokens : op' = Begun("decode", <<s>>, [x \in {s} |-> <<t>>])
    /\ solo' = solo \ {s}
    /\ UNCHANGED <<up, engineVars, lease, phase, toks, done, pos>>

Orders(ss) == {r \in [1 .. Cardinality(ss) -> ss] : Elems(r) = ss}

\* One step of several streams: all of them prefill, or all of them decode.
EnterBatch(ss) ==
    /\ op = Idle
    /\ Cardinality(ss) >= 2
    /\ \A s \in ss : lease[s] # {} /\ s \notin solo
    /\ \E rows \in Orders(ss) :
          \/ /\ \A s \in ss : phase[s] = "prefill"
             /\ op' = Begun("batchPrefill", rows,
                            [s \in ss |-> <<toks[s][done[s] + 1]>>])
          \/ /\ \A s \in ss : phase[s] = "decode" /\ Len(toks[s]) < MaxTokens
             /\ \E in \in [ss -> Tokens] :
                   op' = Begun("batchDecode", rows, [s \in ss |-> <<in[s]>>])
    /\ UNCHANGED <<up, engineVars, sessionVars>>

-----------------------------------------------------------------------------
(* Entering: the engine is built if there is none, the session gets a slot. *)

\* The first of a group to prefill in step, the seed, takes one token alone and
\* the others acquire; an error of either fails every stream of the group.
InGroup ==
    \/ op.kind = "acquire"
    \/ op.kind = "prefill" /\ done[This] = 0 /\ Len(op.in[This]) = 1
                            /\ This \notin DOMAIN record

Casualties ==
    IF InGroup THEN {ss \in SUBSET {s \in Sessions : phase[s] = "prefill"} : This \in ss}
    ELSE {Elems(op.rows)}

\* The device does not serve this step.  A prompt that has no row there yet is
\* prefilled on the CPU, a decode step is taken on the CPU; a chunk past the
\* first fails, and so does a group whose seed or sibling is left without.
Declined ==
    /\ op' = Idle
    /\ UNCHANGED solo
    /\ \/ /\ op.kind = "prefill" /\ done[This] = 0
          /\ phase' = [phase EXCEPT ![This] = "decode"]
          /\ pos' = [pos EXCEPT ![This] = Len(toks[This])]
          /\ UNCHANGED <<toks, done>>
       \/ /\ op.kind = "prefill" /\ done[This] > 0
          /\ Fail({This})
          /\ UNCHANGED <<toks, done, pos>>
       \/ /\ InGroup
          /\ \E ss \in Casualties : Fail(ss)
          /\ UNCHANGED <<toks, done, pos>>
       \/ /\ op.kind = "decode"
          /\ toks' = [toks EXCEPT ![This] = @ \o op.in[This]]
          /\ pos' = [pos EXCEPT ![This] = @ + 1]
          /\ UNCHANGED <<phase, done>>

\* Dropping the engine takes every sequence with it; only the sessions of this
\* operation lose their lease, the others find theirs stale.
Teardown ==
    /\ up' = FALSE
    /\ FreshEngine
    /\ lease' = [s \in Sessions |-> IF s \in Elems(op.rows) THEN {} ELSE lease[s]]
    /\ \E ss \in Casualties : Fail(ss)
    /\ op' = Idle
    /\ UNCHANGED <<toks, done, pos, solo>>

Build ==
    /\ op.stage = "enter" /\ Single
    /\ ~up
    /\ \/ /\ up' = TRUE
          /\ FreshEngine
          /\ UNCHANGED <<sessionVars, op>>
       \/ /\ Declined
          /\ UNCHANGED <<up, engineVars, lease>>

\* Where SPLITK_THRESHOLD is the smaller bound, a decode step past it never
\* reaches the engine; where max_pos() is, CheckCursor declines it.
PastThreshold ==
    /\ op.stage = "enter" /\ op.kind = "decode"
    /\ pos[This] >= MaxPos
    /\ Declined
    /\ UNCHANGED <<up, engineVars, lease>>

LeaseValid(s) ==
    \E l \in lease[s] : slots[l.slot] = [gen |-> l.gen, holder |-> s]

\* acquire: the slot the sequence already has, or the first vacant one.
Holding(s) == {i \in 1 .. Slots : slots[i].holder = s}

FirstOf(ss) == CHOOSE i \in ss : \A j \in ss : i <= j

Select ==
    LET s == This
        vacant == Holding(Nobody)
        i == FirstOf(vacant)
        g == slots[i].gen + 1
    IN  /\ op.stage = "enter" /\ Single
        /\ up
        /\ \/ /\ LeaseValid(s)
              /\ op' = [op EXCEPT !.stage = "cursor"]
              /\ UNCHANGED <<up, engineVars, sessionVars>>
           \/ /\ ~LeaseValid(s)
              /\ Holding(s) # {} \/ (vacant # {} /\ s \in DOMAIN tables)
              /\ Teardown
           \/ /\ ~LeaseValid(s) /\ Holding(s) = {} /\ s \notin DOMAIN tables
              /\ vacant # {}
              /\ slots' = [slots EXCEPT ![i] = [gen |-> g, holder |-> s]]
              /\ lease' = [lease EXCEPT ![s] = {[slot |-> i, gen |-> g]}]
              /\ tables' = Put(tables, s, EmptyTable)
              /\ op' = [op EXCEPT !.stage = "cursor"]
              /\ UNCHANGED <<up, pool, dev, record, cached, phase, toks, done, pos, solo>>
           \/ /\ ~LeaseValid(s) /\ Holding(s) = {}
              /\ vacant = {}
              /\ Declined
              /\ lease' = [lease EXCEPT ![s] = {}]
              /\ UNCHANGED <<up, engineVars>>

CommonPrefix(a, b) ==
    CHOOSE n \in 0 .. AtMost(Len(a), Len(b)) :
        /\ SubSeq(a, 1, n) = SubSeq(b, 1, n)
        /\ n < AtMost(Len(a), Len(b)) => a[n + 1] # b[n + 1]

\* Leading tokens of the prompt that the retained prefix can seed; the last
\* token is always prefilled, for its logits.
MaxReuse(prompt) == Len(prompt) - 1

Reuse(s, prompt) ==
    IF cached = {} \/ tables[s].len # 0 THEN 0
    ELSE LET c == CHOOSE c \in cached : TRUE
         IN  AtMost(AtMost(CommonPrefix(c.toks, prompt), c.table.len), MaxReuse(prompt))

\* adopt_paged_prefix, for a prompt prefilled in one chunk into an empty table.
WholePrompt == op.kind = "prefill" /\ Len(op.in[This]) = Len(toks[This])

Adopt ==
    LET s == This
        n == Reuse(s, op.in[s])
        c == CHOOSE c \in cached : TRUE
    IN  /\ op.stage = "cursor" /\ WholePrompt
        /\ n > 0
        /\ pool' = Forked(pool, c.table, n)
        /\ tables' = [tables EXCEPT ![s] = [pages |-> KeptPages(c.table, n), len |-> n]]
        /\ record' = Put(record, s, SubSeq(op.in[s], 1, n))
        /\ op' = [op EXCEPT !.stage = "prepare",
                            !.in = [x \in {s} |-> SubSeq(op.in[s], n + 1, Len(op.in[s]))]]
        /\ UNCHANGED <<up, dev, cached, slots, sessionVars>>

\* The step goes on only if the table's length is the position it starts at.
\* A prefill that is out of step fails, a decode step is taken on the CPU.
CheckCursor ==
    LET s == This
        start == IF op.kind = "decode" THEN pos[s] ELSE done[s]
    IN  /\ op.stage = "cursor"
        /\ ~(WholePrompt /\ Reuse(s, op.in[s]) > 0)
        /\ \/ /\ op.kind = "acquire"
              /\ op' = Idle
              /\ UNCHANGED <<up, engineVars, sessionVars>>
           \/ /\ op.kind # "acquire"
              /\ start < MaxPos /\ tables[s].len = start
              /\ op' = [op EXCEPT !.stage = "prepare"]
              /\ UNCHANGED <<up, engineVars, sessionVars>>
           \/ /\ op.kind = "prefill" /\ tables[s].len # start
              /\ \E ss \in Casualties : Fail(ss)
              /\ op' = Idle
              /\ UNCHANGED <<up, engineVars, lease, toks, done, pos, solo>>
           \/ /\ op.kind = "decode" /\ (start >= MaxPos \/ tables[s].len # start)
              /\ Declined
              /\ UNCHANGED <<up, engineVars, lease>>

\* A batch does not select: every row needs a valid lease and a table of the
\* row's position, or all of them fail.
EnterRows ==
    LET start(s) == IF op.kind = "batchDecode" THEN pos[s] ELSE done[s]
        ready == /\ up
                 /\ \A s \in Elems(op.rows) :
                       LeaseValid(s) /\ tables[s].len = start(s)
    IN  /\ op.stage = "enter" /\ ~Single
        /\ \/ /\ ready
              /\ op' = [op EXCEPT !.stage = "prepare"]
              /\ UNCHANGED <<up, engineVars, sessionVars>>
           \/ /\ ~ready
              /\ Fail(Elems(op.rows))
              /\ op' = Idle
              /\ UNCHANGED <<up, engineVars, lease, toks, done, pos, solo>>

-----------------------------------------------------------------------------
(* Prepare: pool pages and device pages for every row, in order. *)

Row   == Head(op.todo)
Count == Len(op.in[Row])
Need  == Needed(pool, tables[Row], Count)

\* Device pages of hs, allocated (zeroed) for their handles.
Allocated(d, hs) ==
    [p \in Pages |-> IF \E i \in DOMAIN hs : Index(hs[i]) = p
                     THEN [NoPage EXCEPT !.gen =
                              Generation(hs[CHOOSE i \in DOMAIN hs : Index(hs[i]) = p])]
                     ELSE d[p]]

Freed(d, ps) == [p \in Pages |-> IF p \in ps THEN NoPage ELSE d[p]]

\* copy_paged_kv_page: the rows of the shared last page, copied for this table.
Copied(d, t, hs) ==
    IF CopiesTail(pool, t, Count)
    THEN [d EXCEPT ![Index(hs[1])].rows = d[LastPage(t)].rows]
    ELSE d

PlanRow ==
    LET hs == PickedHandles(pool, Need)
        t == tables[Row]
    IN  /\ op.stage = "prepare"
        /\ Need <= Available(pool)
        /\ pool' = Reserve(pool, Need)
        /\ dev' = Copied(Allocated(dev, hs), t, hs)
        /\ op' = [op EXCEPT !.todo = Tail(@),
                            !.stage = IF Len(op.todo) = 1 THEN "kernel" ELSE @,
                            !.pend = Append(@, [seq |-> Row, from |-> t.len,
                                                pages |-> Planned(pool, t, Count),
                                                alloc |-> hs,
                                                cow |-> CopiesTail(pool, t, Count)])]
        /\ UNCHANGED <<up, tables, record, cached, slots, sessionVars>>

\* A device allocation or the copy fails: the row's pages are given back, then
\* those of the rows before it.
DeviceFails ==
    /\ op.stage = "prepare"
    /\ Need \in 1 .. Available(pool)
    /\ pool' = Undone(Reserve(pool, Need), PickedHandles(pool, Need))
    /\ op' = [op EXCEPT !.stage = "abort", !.err = "device"]
    /\ UNCHANGED <<up, dev, tables, record, cached, slots, sessionVars>>

\* Pages only this table refers to leave the device before the pool frees them.
Exclusive(q, hs) == {p \in Indices(hs) : q.refs[p] = 1}

Evictable_Never == FALSE
Evictable == cached # {}

\* The pool cannot serve the row while it keeps a prefix: the prefix goes, and
\* the row is planned again.
EvictPrefix ==
    LET c == CHOOSE c \in cached : TRUE
        q == Exhausted(pool)
    IN  /\ op.stage = "prepare"
        /\ Need > Available(pool)
        /\ Evictable
        /\ dev' = Freed(dev, Exclusive(q, c.table.pages))
        /\ pool' = Release(q, c.table.pages)
        /\ cached' = {}
        /\ UNCHANGED <<up, tables, record, slots, sessionVars, op>>

PoolExhausted ==
    /\ op.stage = "prepare"
    /\ Need > Available(pool)
    /\ ~Evictable
    /\ pool' = Exhausted(pool)
    /\ op' = [op EXCEPT !.stage = "abort", !.err = "capacity"]
    /\ UNCHANGED <<up, dev, tables, record, cached, slots, sessionVars>>

-----------------------------------------------------------------------------
(* Kernel: the rows are computed into the planned pages. *)

RowAt(d, pages, q) == d[Index(pages[q \div PageTokens + 1])].rows[q % PageTokens]

\* What the kernel computes for the i-th token of a pending append.
Computed(r, i) ==
    (IF r.from = 0 THEN <<>> ELSE RowAt(dev, r.pages, r.from - 1))
        \o SubSeq(op.in[r.seq], 1, i)

\* The appends of this step that write offset o of page p, each with the index
\* of the token it writes there.
Writers(p, o) ==
    {w \in Elems(op.pend) \X (1 .. MaxPos) :
        LET q == w[1].from + w[2] - 1
        IN  /\ w[2] <= Len(op.in[w[1].seq])
            /\ Index(w[1].pages[q \div PageTokens + 1]) = p
            /\ q % PageTokens = o}

OutOfRange == ~Single /\ \E i \in DOMAIN op.pend : op.pend[i].from >= MaxPos

Forward ==
    /\ op.stage = "kernel"
    /\ ~OutOfRange
    /\ dev' = [p \in Pages |-> [dev[p] EXCEPT !.rows =
                 [o \in 0 .. PageTokens - 1 |->
                    IF Writers(p, o) = {} THEN dev[p].rows[o]
                    ELSE LET w == CHOOSE w \in Writers(p, o) : TRUE
                         IN  Computed(w[1], w[2])]]]
    /\ op' = [op EXCEPT !.stage = "commit"]
    /\ UNCHANGED <<up, pool, tables, record, cached, slots, sessionVars>>

\* A batch row past the capacity is refused before anything is written; any
\* other kernel error is an error of the device.
KernelFails ==
    /\ op.stage = "kernel"
    /\ op' = [op EXCEPT !.stage = "abort",
                        !.err = IF OutOfRange THEN "position" ELSE "kernel"]
    /\ UNCHANGED <<up, engineVars, sessionVars>>

-----------------------------------------------------------------------------
(* Commit, or abort. *)

\* validate_append: the table has not moved since the plan, and a page that was
\* planned to be copied is still shared.
CommitValid(r) ==
    LET t == tables[r.seq]
    IN  /\ t.len = r.from
        /\ \A i \in DOMAIN r.alloc : Live(pool, r.alloc[i])
        /\ r.cow => pool.refs[LastPage(t)] >= 2

\* A copied page's source loses this table's reference.
CopySource_Kept(r) == <<>>
CopySource(r) ==
    LET t == tables[r.seq]
    IN  IF r.cow THEN <<t.pages[Len(t.pages)]>> ELSE <<>>

CommitRow ==
    LET r == Head(op.pend)
    IN  /\ op.stage = "commit"
        /\ op.pend # <<>>
        /\ \/ /\ CommitValid(r)
              /\ pool' = Release(pool, CopySource(r))
              /\ tables' = [tables EXCEPT ![r.seq] =
                              [pages |-> r.pages, len |-> r.from + Len(op.in[r.seq])]]
              /\ op' = [op EXCEPT !.pend = Tail(@)]
              /\ UNCHANGED <<up, dev, record, cached, slots, sessionVars>>
           \/ /\ ~CommitValid(r)
              /\ Teardown

\* record_paged_token: only a record of exactly the rows before this one grows.
RecordGrows(s) ==
    s \in DOMAIN record /\ Len(record[s]) = pos[s] /\ pos[s] < tables[s].len

FinishPrefill ==
    LET s == This
        end == tables[s].len
    IN  /\ op.kind = "prefill"
        /\ record' = IF done[s] = 0 /\ end = Len(toks[s])
                     THEN Put(record, s, toks[s]) ELSE record
        /\ done' = [done EXCEPT ![s] = end]
        /\ IF end = Len(toks[s])
           THEN \/ /\ phase' = [phase EXCEPT ![s] = "decode"]
                   /\ pos' = [pos EXCEPT ![s] = end]
                \/ /\ Fail({s})     \* the mirror to the host failed
                   /\ pos' = pos
           ELSE UNCHANGED <<phase, pos>>
        /\ UNCHANGED toks

FinishDecode ==
    LET s == This
    IN  /\ op.kind = "decode"
        /\ \/ record' = IF RecordGrows(s)
                        THEN [record EXCEPT ![s] = @ \o op.in[s]] ELSE record
           \/ record' = record      \* the caller did not name the token
        /\ toks' = [toks EXCEPT ![s] = @ \o op.in[s]]
        /\ pos' = [pos EXCEPT ![s] = @ + 1]
        /\ UNCHANGED <<phase, done>>

\* A batch names no token.  A prefilled prompt is finalized.
FinishBatch ==
    LET ended == {s \in Elems(op.rows) : tables[s].len = Len(toks[s])}
    IN  \/ /\ op.kind = "batchDecode"
           /\ toks' = [s \in Sessions |-> IF s \in Elems(op.rows)
                                          THEN toks[s] \o op.in[s] ELSE toks[s]]
           /\ pos' = [s \in Sessions |-> IF s \in Elems(op.rows)
                                         THEN pos[s] + 1 ELSE pos[s]]
           /\ UNCHANGED <<record, phase, done>>
        \/ /\ op.kind = "batchPrefill"
           /\ done' = [s \in Sessions |-> IF s \in Elems(op.rows)
                                          THEN tables[s].len ELSE done[s]]
           /\ phase' = [s \in Sessions |-> IF s \in ended THEN "decode" ELSE phase[s]]
           /\ pos' = [s \in Sessions |-> IF s \in ended THEN tables[s].len ELSE pos[s]]
           /\ UNCHANGED <<record, toks>>

Finish ==
    /\ op.stage = "commit"
    /\ op.pend = <<>>
    /\ FinishPrefill \/ FinishDecode \/ FinishBatch
    /\ op' = Idle
    /\ UNCHANGED <<up, pool, dev, tables, cached, slots, lease, solo>>

AbortRow ==
    LET r == op.pend[Len(op.pend)]
    IN  /\ op.stage = "abort"
        /\ op.pend # <<>>
        /\ dev' = Freed(dev, Indices(r.alloc))
        /\ pool' = Undone(pool, r.alloc)
        /\ op' = [op EXCEPT !.pend = SubSeq(@, 1, Len(@) - 1)]
        /\ UNCHANGED <<up, tables, record, cached, slots, sessionVars>>

\* A device page that has to go first (the prefix's, or an aborted row's) cannot
\* be released: the error ends the operation and the engine with it.
ReleaseFails ==
    /\ \/ /\ op.stage = "prepare" /\ Need > Available(pool) /\ Evictable
          /\ \E c \in cached : Exclusive(Exhausted(pool), c.table.pages) # {}
       \/ /\ op.stage = "abort" /\ op.pend # <<>>
          /\ op.pend[Len(op.pend)].alloc # <<>>
    /\ Teardown

\* After a refused position (a decode batch: a prompt is never longer than the
\* capacity) the streams step one by one; after any other error the engine is
\* dropped.
EndAbort ==
    /\ op.stage = "abort"
    /\ op.pend = <<>>
    /\ \/ /\ op.err = "position"
          /\ op' = Idle
          /\ solo' = Elems(op.rows)
          /\ UNCHANGED <<up, engineVars, lease, phase, toks, done, pos>>
       \/ /\ op.err # "position"
          /\ Teardown

-----------------------------------------------------------------------------
(* The end of a session. *)

\* The pages stay as the prefix of the next conversation only if the record
\* names every row.
Retained(s) ==
    s \in DOMAIN record /\ record[s] # <<>> /\ Len(record[s]) = tables[s].len

\* The tables whose pages are released when s ends: its own, or those of the
\* prefix it replaces.
Outgoing(s) ==
    IF ~Retained(s) THEN tables[s].pages
    ELSE IF cached = {} THEN <<>>
    ELSE (CHOOSE c \in cached : TRUE).table.pages

Gone(s) ==
    /\ phase' = [phase EXCEPT ![s] = "ended"]
    /\ toks' = [toks EXCEPT ![s] = <<>>]
    /\ done' = [done EXCEPT ![s] = 0]
    /\ pos' = [pos EXCEPT ![s] = 0]
    /\ solo' = solo \ {s}

\* release of the lease's slot; its generation stays.
Vacated(s) ==
    [i \in 1 .. Slots |-> IF slots[i].holder = s
                          THEN [slots[i] EXCEPT !.holder = Nobody] ELSE slots[i]]

Drop(s) ==
    /\ op = Idle
    /\ phase[s] \in {"prefill", "decode", "failed"}
    /\ Gone(s)
    /\ lease' = [lease EXCEPT ![s] = {}]
    /\ \/ /\ ~(up /\ LeaseValid(s))
          /\ UNCHANGED <<up, engineVars>>
       \/ /\ up /\ LeaseValid(s)
          /\ dev' = Freed(dev, Exclusive(pool, Outgoing(s)))
          /\ pool' = Release(pool, Outgoing(s))
          /\ cached' = IF Retained(s) THEN {[table |-> tables[s], toks |-> record[s]]}
                                      ELSE cached
          /\ tables' = Without(tables, s)
          /\ record' = Without(record, s)
          /\ slots' = Vacated(s)
          /\ UNCHANGED up
       \/ /\ up /\ LeaseValid(s)     \* a device page could not be released
          /\ Exclusive(pool, Outgoing(s)) # {}
          /\ up' = FALSE
          /\ FreshEngine
    /\ UNCHANGED op

Next ==
    \/ \E s \in Sessions : \/ EnterPrefill(s) \/ EnterAcquire(s)
                           \/ EnterDecode(s) \/ Drop(s)
    \/ \E ss \in SUBSET Sessions : EnterBatch(ss)
    \/ Build \/ PastThreshold \/ Select \/ Adopt \/ CheckCursor \/ EnterRows
    \/ PlanRow \/ DeviceFails \/ EvictPrefix \/ PoolExhausted
    \/ Forward \/ KernelFails \/ CommitRow \/ Finish
    \/ AbortRow \/ ReleaseFails \/ EndAbort

Spec == Init /\ [][Next]_vars

-----------------------------------------------------------------------------
(* Properties *)

\* Whoever refers to a page: a sequence's table, the retained prefix, or the
\* reservation of a pending append.
Holders(p) ==
    Cardinality({s \in DOMAIN tables : p \in Indices(tables[s].pages)})
  + Cardinality({c \in cached : p \in Indices(c.table.pages)})
  + Cardinality({i \in DOMAIN op.pend : p \in Indices(op.pend[i].alloc)})

\* In every state of every operation the reference count of a page is the
\* number of its holders, every handle held is of the page's present life, and
\* the free stack has every page that was used and has none, once.  A count
\* that is too low hands a page out twice, one that is too high leaks it for the
\* life of the engine.
RefsExact ==
    /\ \A p \in Pages : pool.refs[p] = Holders(p)
    /\ \A s \in DOMAIN tables : \A h \in Elems(tables[s].pages) : Live(pool, h)
    /\ \A c \in cached : \A h \in Elems(c.table.pages) : Live(pool, h)
    /\ Elems(pool.free) = {p \in 1 .. pool.used : pool.refs[p] = 0}
    /\ Cardinality(Elems(pool.free)) = Len(pool.free)

\* The device has a page exactly for every page the pool has handed out, of the
\* same generation: no page is freed under a table, none is left behind.
DeviceExact ==
    \A p \in Pages :
        dev[p].gen = IF pool.refs[p] > 0 THEN pool.gen[p] ELSE 0

\* Pool, tables and device agree about every page at every point of every operation,
\* its errors and aborts included (cuda_paged_kv.rs and the callers in inference.rs).
PagesExact == TypeOK /\ RefsExact /\ DeviceExact

\* Between operations every row of a live sequence was computed from the
\* sequence's own tokens, and every row of the retained prefix from the tokens
\* recorded for it, whatever was shared, copied, evicted or batched before.
RowsExact ==
    op = Idle =>
        /\ \A s \in DOMAIN tables : \A q \in 0 .. tables[s].len - 1 :
              RowAt(dev, tables[s].pages, q) = SubSeq(toks[s], 1, q + 1)
        /\ \A c \in cached : \A q \in 0 .. c.table.len - 1 :
              RowAt(dev, c.table.pages, q) = SubSeq(c.toks, 1, q + 1)

\* What a batch's plan of copies rests on: a prefix evicted for a later row
\* never invalidates the plan of an earlier one, so no commit is refused.
CommitsAccepted ==
    op.stage = "commit" /\ op.pend # <<>> => CommitValid(Head(op.pend))

\* A slot is held by exactly the sequences with a table, each in one slot, and
\* by the session whose lease is valid.
SlotsMatchTables ==
    \A s \in Sessions :
          /\ Cardinality(Holding(s)) = IF s \in DOMAIN tables THEN 1 ELSE 0
          /\ s \in DOMAIN tables => LeaseValid(s)

\* The branches kept for an internal inconsistency are dead: a commit is never refused
\* and a slot never lacks its table, after any series of evictions and teardowns.
NoInconsistency == CommitsAccepted /\ SlotsMatchTables

\* The pool runs out only where its size is to blame: positions that do not
\* fill whole pages, or a row that is past the capacity anyway.  Neither the
\* retained prefix nor shared or copied pages can use up a sequence's share.
CapacitySuffices ==
    op.err = "capacity" =>
        \/ MaxPos % PageTokens # 0
        \/ \E s \in Elems(op.rows) : tables[s].len >= MaxPos
=============================================================================
