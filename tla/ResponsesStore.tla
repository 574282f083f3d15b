--------------------------- MODULE ResponsesStore ---------------------------
(***************************************************************************)
(* Stored responses and conversations (src/api/responses.rs and            *)
(* src/api/responses_store.rs): POST /v1/responses with its idempotency    *)
(* key, and the handlers that change a conversation.  Each request is a    *)
(* task of the server.  It takes the locks of its keys one by one, reads   *)
(* the database, generates without touching it, and commits in one         *)
(* transaction; the client may go away at every await, and the process may *)
(* crash and restart with the database as it was.                          *)
(*                                                                         *)
(* A response is named after the request that produced it.  Items are      *)
(* <<"in", id>> and <<"out", request>>; only their identity matters.       *)
(***************************************************************************)
EXTENDS Naturals, Sequences, FiniteSets, SequencesExt

CONSTANTS
    Tasks,     \* requests, of all kinds
    Workloads, \* sets of requests that clients may send together
    Convs,     \* conversation ids
    Keys,      \* idempotency keys
    None,
    Absent,    \* a conversation that has no row yet
    Gone,      \* one that was deleted
    Kind,      \* "create", "add", "update", "deleteItem", "deleteConversation"
    ConvOf,    \* the conversation a request names, or None
    KeyOf,     \* its Idempotency-Key, or None
    HashOf,    \* request_fingerprint of its body
    PrevOf,    \* the response its previous_response_id names, or None
    Stores,    \* the create requests with store:true
    InputId,   \* the id its input item will have
    MaxItems,  \* MAX_CONTEXT_ITEMS
    MaxCrashes \* bound on restarts of the server

ASSUME TasksAssumption ==
    /\ Kind \in [Tasks -> {"create", "add", "update", "deleteItem", "deleteConversation"}]
    /\ ConvOf \in [Tasks -> Convs \cup {None}]
    /\ KeyOf \in [Tasks -> Keys \cup {None}]
    /\ PrevOf \in [Tasks -> Tasks \cup {None}]
    /\ Stores \subseteq Tasks
    /\ MaxItems \in Nat /\ MaxCrashes \in Nat
    /\ IsFiniteSet(Tasks) /\ Workloads \subseteq SUBSET Tasks
    \* validate_boundary_fields, and the check that a key comes with store:true.
    /\ \A t \in Tasks :
         /\ Kind[t] = "create" => /\ KeyOf[t] # None => t \in Stores
                                  /\ PrevOf[t] = None \/ ConvOf[t] = None
         /\ Kind[t] # "create" => KeyOf[t] = None /\ ConvOf[t] # None

Creates == {t \in Tasks : Kind[t] = "create"}
LockKeys == Convs \cup Keys
LockIds == 1 .. 2 * Max({Cardinality(w) : w \in Workloads})

VARIABLES
    workload,  \* the requests of this behaviour
    conv,      \* conversation_items in order of position; absent, gone: no row
    resp,      \* rows of responses: [key, hash, context], or None
    pool,      \* ResponseLockPool: the lock of a key, 0 for none
    queue,     \* of each lock, the task that holds it and those that wait
    locks,     \* the locks a task holds or waits for, in the order it asked
    pc,        \* where each task is
    base,      \* context read by a create before its own input was added
    answer,    \* the response whose completion the client of a task has seen
    deleted,   \* responses that were deleted
    crashes

dbVars == <<conv, resp, deleted>>
lockVars == <<pool, queue, locks>>
vars == <<workload, dbVars, lockVars, pc, base, answer, crashes>>

Final == {"answered", "rejected", "failed", "lost", "done"}
Exists(c) == conv[c] \notin {Absent, Gone}

Items == ({"in"} \X {InputId[t] : t \in Tasks}) \cup ({"out"} \X Tasks)
Rows == [key : Keys \cup {None}, hash : {HashOf[t] : t \in Tasks}, context : Seq(Items)]

ASSUME RowAssumption == None \notin Rows

TypeOK ==
    /\ \A c \in Convs : Exists(c) => conv[c] \in Seq(Items) /\ Len(conv[c]) <= MaxItems
    /\ \A t \in Tasks : resp[t] # None => resp[t] \in Rows
    /\ pool \in [LockKeys -> LockIds \cup {0}]
    /\ queue \in [LockIds -> Seq(Tasks)]
    /\ locks \in [Tasks -> Seq(LockIds)]
    /\ pc \in [Tasks -> Final \cup {"idle", "locking", "fresh", "generating", "committed"}]
    /\ base \in [Tasks -> Seq(Items)]
    /\ answer \in [Tasks -> Tasks \cup {None}]
    /\ deleted \subseteq Tasks
    /\ crashes \in 0 .. MaxCrashes

Init ==
    /\ workload \in Workloads
    /\ conv = [c \in Convs |-> Absent]
    /\ resp = [t \in Tasks |-> None]
    /\ pool = [k \in LockKeys |-> 0]
    /\ queue = [l \in LockIds |-> <<>>]
    /\ locks = [t \in Tasks |-> <<>>]
    /\ pc = [t \in Tasks |-> "idle"]
    /\ base = [t \in Tasks |-> <<>>]
    /\ answer = [t \in Tasks |-> None]
    /\ deleted = {}
    /\ crashes = 0

-----------------------------------------------------------------------------
(* ResponseLockPool and the tokio mutexes it hands out, which are fair: the *)
(* head of a lock's queue holds it.                                        *)

\* The keys a task locks: sorted, "conversation:..." before "idempotency:...".
KeySeq_NoKey(t) == IF ConvOf[t] = None THEN <<>> ELSE <<ConvOf[t]>>
KeySeq(t) ==
    (IF ConvOf[t] = None THEN <<>> ELSE <<ConvOf[t]>>)
        \o (IF KeyOf[t] = None THEN <<>> ELSE <<KeyOf[t]>>)

\* retain: a lock is kept while someone holds a strong reference to it.
Referenced_Waited(k) == pool[k] # 0 /\ Len(queue[pool[k]]) > 1
Referenced(k) == pool[k] # 0 /\ queue[pool[k]] # <<>>

HoldsAll(t) == \A i \in DOMAIN locks[t] : Head(queue[locks[t][i]]) = t

Ready(t) ==
    pc[t] = "locking" /\ Len(locks[t]) = Len(KeySeq(t)) /\ HoldsAll(t)

Unused(l) == queue[l] = <<>> /\ \A k \in LockKeys : Referenced(k) => pool[k] # l

\* The first id that stands for no lock any more: a new Arc<Mutex<()>>.
NewLocks == {l \in LockIds : Unused(l) /\ \A m \in 1 .. l - 1 : ~Unused(m)}

\* for_key, and the place in line the returned lock gives the task.
ForKey(t) ==
    /\ pc[t] = "locking" /\ Len(locks[t]) < Len(KeySeq(t)) /\ HoldsAll(t)
    /\ LET key == KeySeq(t)[Len(locks[t]) + 1]
       IN  \E lock \in IF Referenced(key) THEN {pool[key]} ELSE NewLocks :
             /\ pool' = [k \in LockKeys |-> IF k = key THEN lock
                                            ELSE IF Referenced(k) THEN pool[k] ELSE 0]
             /\ queue' = [queue EXCEPT ![lock] = Append(@, t)]
             /\ locks' = [locks EXCEPT ![t] = Append(@, lock)]
    /\ UNCHANGED <<dbVars, pc, base, answer, crashes>>

\* A queue without t, which is in it at most once.
Leave(q, t) ==
    IF t \in Range(q) THEN RemoveAt(q, CHOOSE i \in DOMAIN q : q[i] = t) ELSE q

\* The guards of a task are dropped, the places of a task that waits too.
Release_OnSuccess(t) ==
    IF pc'[t] = "failed"
    THEN UNCHANGED lockVars
    ELSE /\ queue' = [l \in LockIds |-> Leave(queue[l], t)]
         /\ locks' = [locks EXCEPT ![t] = <<>>]
         /\ UNCHANGED pool
Release(t) ==
    /\ queue' = [l \in LockIds |-> Leave(queue[l], t)]
    /\ locks' = [locks EXCEPT ![t] = <<>>]
    /\ UNCHANGED pool

Send(t) ==
    /\ pc[t] = "idle"
    /\ pc' = [pc EXCEPT ![t] = "locking"]
    /\ UNCHANGED <<dbVars, lockVars, base, answer, crashes>>

Ends(t, how) ==
    /\ pc' = [pc EXCEPT ![t] = how]
    /\ base' = [base EXCEPT ![t] = <<>>]
    /\ Release(t)

-----------------------------------------------------------------------------
(* POST /v1/responses.                                                     *)

\* The row with the key of request t.
StoredUnder(t) == {s \in Tasks : resp[s] # None /\ KeyOf[t] # None /\ resp[s].key = KeyOf[t]}

\* get_response_by_idempotency_key under the locks: replay, conflict, or none.
Lookup(t) ==
    /\ Kind[t] = "create" /\ Ready(t)
    /\ \/ \E s \in StoredUnder(t) :
            \/ /\ resp[s].hash = HashOf[t]
               /\ Ends(t, "answered")
               /\ answer' = [answer EXCEPT ![t] = s]
            \/ /\ resp[s].hash # HashOf[t]
               /\ Ends(t, "rejected")
               /\ UNCHANGED answer
       \/ /\ StoredUnder(t) = {}
          /\ pc' = [pc EXCEPT ![t] = "fresh"]
          /\ UNCHANGED <<lockVars, base, answer>>
    /\ UNCHANGED <<dbVars, crashes>>

\* The context of the previous response, or the conversation's items, or none.
History(t) ==
    IF PrevOf[t] # None THEN resp[PrevOf[t]].context
    ELSE IF ConvOf[t] # None THEN conv[ConvOf[t]]
    ELSE <<>>

HasHistory(t) ==
    /\ PrevOf[t] # None => resp[PrevOf[t]] # None
    /\ ConvOf[t] # None => Exists(ConvOf[t])

\* The context is read; validate_context counts it with the request's input.
Load(t) ==
    /\ pc[t] = "fresh"
    /\ IF HasHistory(t) /\ Len(History(t)) < MaxItems
       THEN /\ pc' = [pc EXCEPT ![t] = "generating"]
            /\ base' = [base EXCEPT ![t] = History(t)]
            /\ UNCHANGED lockVars
       ELSE Ends(t, "failed")
    /\ UNCHANGED <<dbVars, answer, crashes>>

\* A database error at a read, an error of the chat handler or in its stream.
Fail(t) ==
    /\ Kind[t] = "create"
    /\ Ready(t) \/ pc[t] \in {"fresh", "generating"}
    /\ Ends(t, "failed")
    /\ UNCHANGED <<dbVars, answer, crashes>>

Input(t) == <<"in", InputId[t]>>
Output(t) == <<"out", t>>

\* append_items: item ids are unique over all conversations.
Appendable(c, items) ==
    /\ Exists(c)
    /\ Len(conv[c]) + Len(items) <= MaxItems
    /\ \A d \in Convs : Exists(d) => Range(items) \cap Range(conv[d]) = {}

\* The INSERT INTO responses: the key is unique.
Insertable(t) == t \in Stores => StoredUnder(t) = {}

Inserted(t) ==
    IF t \in Stores
    THEN [resp EXCEPT ![t] = [key |-> KeyOf[t], hash |-> HashOf[t],
                              context |-> base[t] \o <<Input(t), Output(t)>>]]
    ELSE resp

Appended(t) ==
    IF ConvOf[t] # None
    THEN [conv EXCEPT ![ConvOf[t]] = @ \o <<Input(t), Output(t)>>]
    ELSE conv

Persists(t) == t \in Stores \/ ConvOf[t] # None

\* ResponsePersistence::commit: one transaction, all of it or none of it, and
\* then the guards go.  A request that neither stores nor converses has none.
Commit_NoRollback(t) ==
    /\ pc[t] = "generating"
    /\ \/ /\ ConvOf[t] # None => Appendable(ConvOf[t], <<Input(t), Output(t)>>)
          /\ Insertable(t)
          /\ Ends(t, "committed")
          /\ resp' = Inserted(t)
          /\ conv' = Appended(t)
       \/ /\ ConvOf[t] # None /\ Exists(ConvOf[t])
          /\ conv' = [conv EXCEPT ![ConvOf[t]] = Append(@, Input(t))]
          /\ Ends(t, "failed") /\ UNCHANGED resp
    /\ UNCHANGED <<deleted, answer, crashes>>
Commit(t) ==
    /\ pc[t] = "generating"
    /\ \/ /\ ConvOf[t] # None => Appendable(ConvOf[t], <<Input(t), Output(t)>>)
          /\ Insertable(t)
          /\ Persists(t) => Len(base[t]) + 2 <= MaxItems
          /\ Ends(t, "committed")
          /\ resp' = Inserted(t)
          /\ conv' = Appended(t)
       \/ Ends(t, "failed") /\ UNCHANGED <<conv, resp>>
    /\ UNCHANGED <<deleted, answer, crashes>>

\* The completed response, or the terminal events of the stream, reach the client.
Reply(t) ==
    /\ pc[t] = "committed"
    /\ pc' = [pc EXCEPT ![t] = "answered"]
    /\ answer' = [answer EXCEPT ![t] = t]
    /\ UNCHANGED <<dbVars, lockVars, base, crashes>>

\* The client goes away: the task, or its stream, is dropped at an await.
Disconnect(t) ==
    /\ pc[t] \in {"locking", "generating", "committed"}
    /\ Ends(t, "lost")
    /\ UNCHANGED <<dbVars, answer, crashes>>

-----------------------------------------------------------------------------
(* The other handlers.                                                     *)

\* POST /v1/conversations under a new id.
CreateConversation(c) ==
    /\ conv[c] = Absent
    /\ conv' = [conv EXCEPT ![c] = <<>>]
    /\ UNCHANGED <<resp, deleted, lockVars, pc, base, answer, crashes>>

\* The handlers that change a conversation do it under its lock; each may find
\* nothing to change, or fail.
Under(t, kind) ==
    /\ Kind[t] = kind /\ Ready(t)
    /\ Ends(t, "done")
    /\ UNCHANGED <<resp, deleted, answer, crashes>>

AddItems(t) ==
    /\ Under(t, "add")
    /\ \/ /\ Appendable(ConvOf[t], <<Input(t)>>)
          /\ conv' = [conv EXCEPT ![ConvOf[t]] = Append(@, Input(t))]
       \/ UNCHANGED conv

\* Its metadata is all that changes.
UpdateConversation(t) == Under(t, "update") /\ UNCHANGED conv

\* The rows behind the deleted one move up (resequence_items).
DeleteItem(t) ==
    /\ Under(t, "deleteItem")
    /\ \/ /\ Exists(ConvOf[t])
          /\ \E i \in DOMAIN conv[ConvOf[t]] :
               conv' = [conv EXCEPT ![ConvOf[t]] = RemoveAt(@, i)]
       \/ UNCHANGED conv

\* The items go with the conversation, the responses stay.
DeleteConversation(t) ==
    /\ Under(t, "deleteConversation")
    /\ \/ /\ Exists(ConvOf[t])
          /\ conv' = [conv EXCEPT ![ConvOf[t]] = Gone]
       \/ UNCHANGED conv

\* DELETE /v1/responses/:id takes no lock.
DeleteResponse(s) ==
    /\ resp[s] # None
    /\ resp' = [resp EXCEPT ![s] = None]
    /\ deleted' = deleted \cup {s}
    /\ UNCHANGED <<conv, lockVars, pc, base, answer, crashes>>

\* The server dies and starts again on the same database.
Crash ==
    /\ crashes < MaxCrashes
    /\ crashes' = crashes + 1
    /\ pool' = [k \in LockKeys |-> 0]
    /\ queue' = [l \in LockIds |-> <<>>]
    /\ locks' = [t \in Tasks |-> <<>>]
    /\ pc' = [t \in Tasks |-> IF pc[t] \in Final \cup {"idle"} THEN pc[t] ELSE "lost"]
    /\ base' = [t \in Tasks |-> <<>>]
    /\ UNCHANGED <<dbVars, answer>>

Handler(t) ==
    \/ ForKey(t) \/ Lookup(t) \/ Load(t) \/ Commit(t) \/ Reply(t)
    \/ AddItems(t) \/ UpdateConversation(t) \/ DeleteItem(t) \/ DeleteConversation(t)

Next ==
    /\ \/ \E t \in workload : Send(t) \/ Handler(t) \/ Fail(t) \/ Disconnect(t)
       \/ \E c \in Convs : CreateConversation(c)
       \/ \E s \in workload : DeleteResponse(s)
       \/ Crash
    /\ UNCHANGED workload

\* The runtime goes on as long as some task can, and generation ends.
Fairness == WF_vars((\E t \in workload : Handler(t)) /\ UNCHANGED workload)

Spec == Init /\ [][Next]_vars /\ Fairness

-----------------------------------------------------------------------------
(* Properties.                                                             *)

\* Two tasks never hold the lock of one key, though the pool forgets locks and
\* makes new ones for the same key (ResponseLockPool::for_key).
MutualExclusion ==
    \A t, u \in Tasks : t # u =>
        \A i \in DOMAIN locks[t], j \in DOMAIN locks[u] :
            (KeySeq(t)[i] = KeySeq(u)[j] /\ Head(queue[locks[t][i]]) = t)
                => Head(queue[locks[u][j]]) # u

\* While a response is generated, the conversation it will be appended to is the
\* one its prompt was built from: no handler changes it between the read and the
\* commit, which are far apart.
PromptIsHistory ==
    \A t \in Creates :
        (pc[t] = "generating" /\ ConvOf[t] # None) => conv[ConvOf[t]] = base[t]

\* A turn is generated from the history it is appended to, and what guarantees it, the
\* lock pool, gives no key two holders (create_response and its locks).
HistoryIsolated == TypeOK /\ MutualExclusion /\ PromptIsHistory

\* No two requests with one key generate at once, and none generates a response
\* that is already stored: the UNIQUE constraint on the key never refuses a commit
\* after the model has run.
KeyGeneratesOnce ==
    \A t \in Creates :
        (pc[t] = "generating" /\ KeyOf[t] # None) =>
            /\ StoredUnder(t) = {}
            /\ \A u \in Creates \ {t} :
                 KeyOf[u] = KeyOf[t] => pc[u] # "generating"

\* A request repeated with its key after a lost answer, a timeout or a crash gets
\* the first response and adds nothing to the conversation, and another request
\* under that key gets none, as long as no response of the key was deleted.
RetryIsHarmless ==
    \A t, u \in Creates :
        (/\ t # u /\ KeyOf[t] # None /\ KeyOf[t] = KeyOf[u]
         /\ \A s \in deleted : KeyOf[s] # KeyOf[t]) =>
            /\ (answer[t] # None /\ answer[u] # None) =>
                 answer[t] = answer[u] /\ HashOf[t] = HashOf[u]
            /\ \A c \in Convs : Exists(c) =>
                 ~({Output(t), Output(u)} \subseteq Range(conv[c]))

\* An idempotency key stands for one generation and one answer.
OncePerKey == KeyGeneratesOnce /\ RetryIsHarmless

\* A stored response that a client saw completed is in the database, whatever
\* crashed since, unless it was deleted.
CompletedIsDurable ==
    \A t \in Creates :
        (answer[t] # None /\ answer[t] \in Stores)
            => resp[answer[t]] # None \/ answer[t] \in deleted

\* The input and the output of a turn enter a conversation together and stay next
\* to each other while no item is deleted.
TurnsAreWhole ==
    \A c \in Convs :
        (Exists(c) /\ \A d \in Tasks : Kind[d] = "deleteItem" => pc[d] # "done") =>
            \A t \in Creates :
                /\ \A i \in DOMAIN conv[c] : conv[c][i] = Output(t)
                     => i > 1 /\ conv[c][i - 1] = Input(t)
                /\ (\A a \in Tasks : Kind[a] = "add" => InputId[a] # InputId[t]) =>
                     \A i \in DOMAIN conv[c] : conv[c][i] = Input(t)
                        => \E u \in Creates : /\ i < Len(conv[c])
                                              /\ conv[c][i + 1] = Output(u)

\* What commit and answer leave behind over crashes, disconnects and failures at the
\* item limit: an answered response is stored, and a stored turn is whole.
TurnsAreDurable == CompletedIsDurable /\ TurnsAreWhole

\* Requests that wait for locks all end: the locks are taken in one order, and
\* whoever ends, by an error or a client that left, gives up its place.
EveryRequestEnds ==
    (\E t \in workload : pc[t] = "locking")
        ~> (\A t \in workload : pc[t] \in Final \cup {"idle"})
=============================================================================
