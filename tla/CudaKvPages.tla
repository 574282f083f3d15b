---------------------------- MODULE CudaKvPages ----------------------------
(***************************************************************************)
(* The page pool and the page tables of src/inference/cuda_paged_kv.rs, as *)
(* operators: a pool is a value, and each operation maps the pool before   *)
(* it to the pool after it.                                                *)
(*                                                                         *)
(* A pool has the generation and the reference count of every page (zero   *)
(* references: Vacant, or not pushed yet), the stack of freed indices and  *)
(* the number of pages ever pushed.  A handle is <<index, generation>>; a  *)
(* table is a sequence of handles and a length in tokens.  Page indices    *)
(* start at 1.  allocated_pages is the number of pages with a reference:   *)
(* the code moves that counter exactly where a count leaves or reaches 0.  *)
(*                                                                         *)
(* A definition X_Suffix right before X is X with a plausible mistake in   *)
(* it; no other definition uses it.                                        *)
(***************************************************************************)
EXTENDS Integers, Sequences, FiniteSets

CONSTANTS
    PageTokens,    \* CUDA_KV_PAGE_TOKENS
    CapacityPages  \* capacity_pages of the pool

ASSUME PageAssumption ==
    /\ PageTokens \in Nat \ {0}
    /\ CapacityPages \in Nat \ {0}

Pages   == 1 .. CapacityPages
Handles == Pages \X Nat
Pools   == [gen : [Pages -> Nat], refs : [Pages -> Nat],
            free : Seq(Pages), used : 0 .. CapacityPages]
Tables  == [pages : Seq(Handles), len : Nat]

\* The numbers in ns, from the lowest to the highest.
Ordered(ns) ==
    [i \in 1 .. Cardinality(ns) |->
        CHOOSE n \in ns : Cardinality({m \in ns : m < n}) = i - 1]

Elems(s)    == {s[i] : i \in DOMAIN s}
Reversed(s) == [i \in 1 .. Len(s) |-> s[Len(s) + 1 - i]]
AtMost(m, n) == IF m <= n THEN m ELSE n
DivCeil(m, n) == (m + n - 1) \div n

Index(h)      == h[1]
Generation(h) == h[2]
Indices(hs)   == {Index(h) : h \in Elems(hs)}

EmptyPool ==
    [gen |-> [p \in Pages |-> 0], refs |-> [p \in Pages |-> 0],
     free |-> <<>>, used |-> 0]

EmptyTable == [pages |-> <<>>, len |-> 0]

Available(q) == CapacityPages - Cardinality({p \in Pages : q.refs[p] > 0})

\* live_entry: the page has references and the handle is of this life of it.
Live(q, h) == q.gen[Index(h)] = Generation(h) /\ q.refs[Index(h)] > 0

\* The pages k calls of allocate_one take: the freed ones, last freed first,
\* then pages never used before.
Picked(q, k) ==
    [i \in 1 .. k |-> IF i <= Len(q.free) THEN q.free[Len(q.free) + 1 - i]
                                          ELSE q.used + i - Len(q.free)]

PickedHandles(q, k) ==
    [i \in 1 .. k |-> <<Picked(q, k)[i], q.gen[Picked(q, k)[i]] + 1>>]

Reserve(q, k) ==
    LET taken == Elems(Picked(q, k))
    IN  [gen  |-> [p \in Pages |-> IF p \in taken THEN q.gen[p] + 1
                                                  ELSE q.gen[p]],
         refs |-> [p \in Pages |-> IF p \in taken THEN 1 ELSE q.refs[p]],
         free |-> SubSeq(q.free, 1, Len(q.free) - AtMost(k, Len(q.free))),
         used |-> q.used + k - AtMost(k, Len(q.free))]

\* One release per handle, in order: a page with other references loses one, a
\* page with this one reference becomes vacant and goes on the free stack.
Release(q, hs) ==
    LET last == {i \in DOMAIN hs : q.refs[Index(hs[i])] = 1}
        freed == [i \in 1 .. Cardinality(last) |-> Index(hs[Ordered(last)[i]])]
    IN  [q EXCEPT !.refs = [p \in Pages |-> IF p \in Indices(hs) THEN q.refs[p] - 1
                                                                 ELSE q.refs[p]],
                  !.free = q.free \o freed]

Retain(q, hs) ==
    [q EXCEPT !.refs = [p \in Pages |-> IF p \in Indices(hs) THEN q.refs[p] + 1
                                                             ELSE q.refs[p]]]

\* fork, then truncate: the child holds the pages of the first n tokens.
KeptPages(t, n) == SubSeq(t.pages, 1, DivCeil(n, PageTokens))

Forked(q, t, n) ==
    Release(Retain(q, t.pages),
            SubSeq(t.pages, DivCeil(n, PageTokens) + 1, Len(t.pages)))

LastPage(t) == Index(t.pages[Len(t.pages)])

\* An append of k tokens writes into the last page, and that page is shared: it
\* is copied first.
CopiesTail_Never(q, t, k) == FALSE
CopiesTail_OffByOne(q, t, k) ==
    k > 0 /\ t.len % PageTokens # 0 /\ q.refs[LastPage(t)] >= 1
CopiesTail(q, t, k) ==
    k > 0 /\ t.len % PageTokens # 0 /\ q.refs[LastPage(t)] > 1

NewPages(t, k) == DivCeil(t.len + k, PageTokens) - Len(t.pages)

\* Pages that prepare_append_batch reserves: the copy, then the pages past the
\* last one.
Needed(q, t, k) == NewPages(t, k) + (IF CopiesTail(q, t, k) THEN 1 ELSE 0)

\* planned_pages_after_batch
Planned(q, t, k) ==
    LET hs == PickedHandles(q, Needed(q, t, k))
    IN  IF CopiesTail(q, t, k)
        THEN SubSeq(t.pages, 1, Len(t.pages) - 1) \o hs
        ELSE t.pages \o hs

\* A reservation of k pages taken back, last page first (abort_append_batch,
\* and the error path of prepare_append_batch).
Undone(q, hs) == Release(q, Reversed(hs))

\* The pages that prepare_append_batch got before the pool ran out are released
\* again: the pool keeps its free pages and the generations have moved.
Exhausted(q) ==
    Undone(Reserve(q, Available(q)), PickedHandles(q, Available(q)))
=============================================================================
