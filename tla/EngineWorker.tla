---------------------------- MODULE EngineWorker ----------------------------
(***************************************************************************)
(* The engine worker of src/api/engine.rs and the ContinuousBatch          *)
(* scheduler of src/api/continuous_batch.rs it drives: one OS thread that  *)
(* owns all decode compute, a bounded channel that HTTP handlers post jobs *)
(* on, and a public table of the slots the streams hold.                   *)
(*                                                                         *)
(* Three kinds of processes take steps: handlers (Reserve, TrySend,        *)
(* Release, Cancel, DropHandles), which run on any thread, and the worker, *)
(* whose loop is split where another thread can see the difference: every  *)
(* channel operation, every atomic store that is not next to another one   *)
(* the properties tell apart, and the start and the end of a compute step. *)
(*                                                                         *)
(* A definition X_Suffix right before X is X with a plausible mistake in   *)
(* it; no other definition uses it.                                        *)
(***************************************************************************)
EXTENDS Integers, Sequences, FiniteSets

CONSTANTS
    Jobs,        \* jobs that can be outstanding at once; reused when retired
    NoJob,       \* the sentinel 0 of the task id fields
    Slots,       \* admitted_slots: cooperative slots of the batch
    QueueDepth,  \* capacity of the bounded channel
    MaxSteps,    \* bound on the steps of one stream (max_tokens and prefill)
    Groups,      \* the (group, instance) part of a CooperativeBatchKey
    NoKey        \* compatibility_key returned None

ASSUME JobsAssumption == IsFiniteSet(Jobs) /\ NoJob \notin Jobs
ASSUME BoundsAssumption ==
    /\ Slots \in Nat \ {0}
    /\ QueueDepth \in Nat \ {0}
    /\ MaxSteps \in Nat \ {0}
ASSUME KeysAssumption == NoKey \notin Groups \X BOOLEAN

VARIABLES
    st,           \* where each job stands, see Status
    kind,         \* which EngineTask variant it is
    prefill,      \* is_prefill_pending of a batchable stream
    taken,        \* steps after which the stream returned Continue
    cancelAt,     \* value of taken when the handler dropped, -1 before that
    depth,        \* the atomic EngineHandle.depth
    queue,        \* the channel
    open,         \* some EngineHandle is alive
    wpc,          \* where the worker is in its loop
    disconnected, \* the loop's local of that name
    pending,      \* the loop's local of that name, as a sequence
    waiting,      \* ContinuousBatch.waiting
    active,       \* ContinuousBatch.active
    tasks,        \* the round's drained tasks, in queue order
    key,          \* the round's compatibility keys
    todo,         \* tasks of the round in no group yet
    solo,         \* members of a declined group still to take a scalar step
    starting,     \* jobs of the current call whose begin_step is still to come
    exec,         \* jobs of the current call that begin_step has published
    sawCancel,    \* a job of exec was cancelled when its step looked
    outcome,      \* StepOutcome of each task of the round
    done,         \* the round's completed ids, depth still to be lowered
    begun,        \* jobs whose CooperativeSlotState (and guard) exists
    slotOf,       \* public_slot_index, 0 for None
    public,       \* task_id of every entry of cooperative_slot_states
    activeId,     \* the atomic active_task_id
    occupied,     \* the atomic occupied_slots
    exclusiveActive \* the atomic exclusive_active

handlerVars == <<st, kind, cancelAt, depth, queue, open>>
jobVars     == <<prefill, taken>>
loopVars    == <<wpc, disconnected, pending>>
batchVars   == <<waiting, active>>
roundVars   == <<tasks, key, todo, solo, starting, exec, sawCancel, outcome, done>>
slotVars    == <<begun, slotOf, public, activeId, occupied, exclusiveActive>>
vars        == <<handlerVars, jobVars, loopVars, batchVars, roundVars, slotVars>>

Kinds    == {"exclusive", "stream"}   \* a stream is BatchableCooperative
Status   == {"idle",      \* not posted, or retired: free to be used again
             "posting",   \* counted in depth, try_send still to come
             "refused",   \* try_send failed, depth still to be lowered
             "accepted",  \* the worker owns it
             "lost"}      \* the worker died while it owned it
Outcomes == {"none", "continue", "complete"}
Keys     == Groups \X BOOLEAN   \* BOOLEAN: the Prefill phase of the key

Elems(s) == {s[i] : i \in DOMAIN s}

TypeOK ==
    /\ st \in [Jobs -> Status]
    /\ kind \in [Jobs -> Kinds]
    /\ prefill \in [Jobs -> BOOLEAN]
    /\ taken \in [Jobs -> 0 .. MaxSteps]
    /\ cancelAt \in [Jobs -> -1 .. MaxSteps]
    /\ depth \in Int
    /\ queue \in Seq(Jobs)
    /\ open \in BOOLEAN
    /\ wpc \in {"top", "recv", "exclusive", "lowerDepth", "dispatch", "pick",
                "begin", "run", "collect", "retire", "exit", "dead"}
    /\ disconnected \in BOOLEAN
    /\ pending \in Seq(Jobs)
    /\ waiting \in Seq(Jobs)
    /\ active \in Seq(Jobs)
    /\ tasks \in Seq(Jobs)
    /\ key \in [Jobs -> Keys \cup {NoKey}]
    /\ todo \in SUBSET Jobs
    /\ solo \in SUBSET Jobs
    /\ starting \in SUBSET Jobs
    /\ exec \in SUBSET Jobs
    /\ sawCancel \in BOOLEAN
    /\ outcome \in [Jobs -> Outcomes]
    /\ done \in SUBSET Jobs
    /\ begun \in SUBSET Jobs
    /\ slotOf \in [Jobs -> 0 .. Slots]
    /\ public \in [1 .. Slots -> Jobs \cup {NoJob}]
    /\ activeId \in Jobs \cup {NoJob}
    /\ occupied \in Nat
    /\ exclusiveActive \in 0 .. 1

Init ==
    /\ st = [j \in Jobs |-> "idle"]
    /\ kind = [j \in Jobs |-> "exclusive"]
    /\ prefill = [j \in Jobs |-> FALSE]
    /\ taken = [j \in Jobs |-> 0]
    /\ cancelAt = [j \in Jobs |-> -1]
    /\ depth = 0
    /\ queue = <<>>
    /\ open = TRUE
    /\ wpc = "top"
    /\ disconnected = FALSE
    /\ pending = <<>>
    /\ waiting = <<>>
    /\ active = <<>>
    /\ tasks = <<>>
    /\ key = [j \in Jobs |-> NoKey]
    /\ todo = {}
    /\ solo = {}
    /\ starting = {}
    /\ exec = {}
    /\ sawCancel = FALSE
    /\ outcome = [j \in Jobs |-> "none"]
    /\ done = {}
    /\ begun = {}
    /\ slotOf = [j \in Jobs |-> 0]
    /\ public = [s \in 1 .. Slots |-> NoJob]
    /\ activeId = NoJob
    /\ occupied = 0
    /\ exclusiveActive = 0

\* What is left of the jobs of S once they are dropped: nothing.
Forget(S) ==
    /\ st' = [j \in Jobs |-> IF j \in S THEN "idle" ELSE st[j]]
    /\ kind' = [j \in Jobs |-> IF j \in S THEN "exclusive" ELSE kind[j]]
    /\ prefill' = [j \in Jobs |-> IF j \in S THEN FALSE ELSE prefill[j]]
    /\ taken' = [j \in Jobs |-> IF j \in S THEN 0 ELSE taken[j]]
    /\ cancelAt' = [j \in Jobs |-> IF j \in S THEN -1 ELSE cancelAt[j]]

-----------------------------------------------------------------------------
(* Handlers: EngineHandle::post, the request's CancelOnDrop, and the drop  *)
(* of the last handle.                                                     *)

\* post, up to and including depth.fetch_add: the job is counted before the
\* worker can see it.
Reserve(j) ==
    /\ open
    /\ st[j] = "idle"
    /\ \E k \in Kinds, p \in BOOLEAN :
          /\ p => k = "stream"
          /\ kind' = [kind EXCEPT ![j] = k]
          /\ prefill' = [prefill EXCEPT ![j] = p]
    /\ st' = [st EXCEPT ![j] = "posting"]
    /\ depth' = depth + 1
    /\ UNCHANGED <<taken, cancelAt, queue, open, loopVars, batchVars, roundVars,
                   slotVars>>

\* The receiver is dropped when the worker thread ends, whichever way.
Closed == wpc \in {"exit", "dead"}

ChannelFull_OffByOne == Len(queue) + 1 >= QueueDepth
ChannelFull == Len(queue) >= QueueDepth

\* post, tx.try_send: Ok, or Full or Closed.
TrySend(j) ==
    /\ st[j] = "posting"
    /\ \/ /\ ~Closed /\ ~ChannelFull
          /\ queue' = Append(queue, j)
          /\ st' = [st EXCEPT ![j] = "accepted"]
       \/ /\ Closed \/ ChannelFull
          /\ st' = [st EXCEPT ![j] = "refused"]
          /\ UNCHANGED queue
    /\ UNCHANGED <<kind, cancelAt, depth, open, jobVars, loopVars, batchVars,
                   roundVars, slotVars>>

\* post, the error arms: undo the count and answer QueueFull or Unavailable.
Release(j) ==
    /\ st[j] = "refused"
    /\ Forget({j})
    /\ depth' = depth - 1
    /\ UNCHANGED <<queue, open, loopVars, batchVars, roundVars, slotVars>>

\* The handler's frame is dropped: CancelOnDrop fires the token, at any time.
Cancel(j) ==
    /\ st[j] = "accepted"
    /\ kind[j] = "stream"
    /\ cancelAt[j] = -1
    /\ cancelAt' = [cancelAt EXCEPT ![j] = taken[j]]
    /\ UNCHANGED <<st, kind, depth, queue, open, jobVars, loopVars, batchVars,
                   roundVars, slotVars>>

\* The last EngineHandle goes away; a handler inside post still borrows one.
DropHandles ==
    /\ open
    /\ \A j \in Jobs : st[j] \notin {"posting", "refused"}
    /\ open' = FALSE
    /\ UNCHANGED <<st, kind, cancelAt, depth, queue, jobVars, loopVars,
                   batchVars, roundVars, slotVars>>

-----------------------------------------------------------------------------
(* The worker's admission loop.                                            *)

HasFreeSlot_IgnoresWaiting == Len(active) < Slots
HasFreeSlot_OffByOne == Len(active) + Len(waiting) + 1 < Slots
HasFreeSlot == Len(active) + Len(waiting) < Slots
BatchEmpty  == active = <<>> /\ waiting = <<>>

\* Loop top: a held-back stream takes the first freed slot.
TakePending ==
    /\ wpc = "top"
    /\ IF pending # <<>> /\ HasFreeSlot
         THEN /\ waiting' = Append(waiting, Head(pending))
              /\ pending' = <<>>
         ELSE UNCHANGED <<waiting, pending>>
    /\ wpc' = "recv"
    /\ UNCHANGED <<handlerVars, jobVars, disconnected, active, roundVars, slotVars>>

\* A cooperative job is received: admitted if a slot is free, held otherwise.
RecvCooperative ==
    /\ wpc = "recv"
    /\ pending = <<>>
    /\ queue # <<>>
    /\ kind[Head(queue)] = "stream"
    /\ queue' = Tail(queue)
    /\ IF HasFreeSlot
         THEN /\ waiting' = Append(waiting, Head(queue))
              /\ UNCHANGED pending
         ELSE /\ pending' = <<Head(queue)>>
              /\ UNCHANGED waiting
    /\ UNCHANGED <<st, kind, cancelAt, depth, open, jobVars, wpc, disconnected,
                   active, roundVars, slotVars>>

RecvExclusive_WaitsForStreams ==
    /\ wpc = "recv"
    /\ pending = <<>>
    /\ BatchEmpty
    /\ queue # <<>>
    /\ kind[Head(queue)] = "exclusive"
    /\ queue' = Tail(queue)
    /\ exec' = {Head(queue)}
    /\ activeId' = Head(queue)
    /\ exclusiveActive' = 1
    /\ wpc' = "exclusive"
    /\ UNCHANGED <<st, kind, cancelAt, depth, open, jobVars, disconnected, pending,
                   batchVars, tasks, key, todo, solo, starting, sawCancel, outcome,
                   done, begun, slotOf, public, occupied>>

\* An exclusive job is received and starts at once, streams or not; its
\* closure publishes the task id.
RecvExclusive ==
    /\ wpc = "recv"
    /\ pending = <<>>
    /\ queue # <<>>
    /\ kind[Head(queue)] = "exclusive"
    /\ queue' = Tail(queue)
    /\ exec' = {Head(queue)}
    /\ activeId' = Head(queue)
    /\ exclusiveActive' = 1
    /\ wpc' = "exclusive"
    /\ UNCHANGED <<st, kind, cancelAt, depth, open, jobVars, disconnected, pending,
                   batchVars, tasks, key, todo, solo, starting, sawCancel, outcome,
                   done, begun, slotOf, public, occupied>>

\* The exclusive job returns or panics: its ActiveTaskGuard clears the task id
\* either way, and the worker clears exclusive_active.
FinishExclusive ==
    /\ wpc = "exclusive"
    /\ activeId' = NoJob
    /\ exclusiveActive' = 0
    /\ wpc' = "lowerDepth"
    /\ UNCHANGED <<handlerVars, jobVars, disconnected, pending, batchVars, roundVars,
                   begun, slotOf, public, occupied>>

\* The fetch_sub after an exclusive job; the loop goes on receiving.
RetireExclusive ==
    /\ wpc = "lowerDepth"
    /\ depth' = depth - 1
    /\ Forget(exec)
    /\ exec' = {}
    /\ wpc' = "recv"
    /\ UNCHANGED <<queue, open, disconnected, pending,
                   batchVars, tasks, key, todo, solo, starting, sawCancel, outcome,
                   done, slotVars>>

\* The receive loop ends: a stream is held back, or try_recv finds nothing.
StopReceiving ==
    /\ wpc = "recv"
    /\ pending # <<>> \/ (queue = <<>> /\ ~BatchEmpty)
    /\ wpc' = "dispatch"
    /\ UNCHANGED <<handlerVars, jobVars, disconnected, pending, batchVars, roundVars,
                   slotVars>>

\* blocking_recv returns None only when nothing is queued and every handle is
\* dropped.
ChannelClosed_IgnoresQueue == ~open
ChannelClosed == queue = <<>> /\ ~open

RecvClosed ==
    /\ wpc = "recv"
    /\ pending = <<>>
    /\ BatchEmpty
    /\ ChannelClosed
    /\ disconnected' = TRUE
    /\ wpc' = "dispatch"
    /\ UNCHANGED <<handlerVars, jobVars, pending, batchVars, roundVars, slotVars>>

\* With an empty batch the loop breaks once disconnected, else it continues.
ExitOrContinue ==
    /\ wpc = "dispatch"
    /\ BatchEmpty
    /\ wpc' = IF disconnected /\ pending = <<>> THEN "exit" ELSE "top"
    /\ UNCHANGED <<handlerVars, jobVars, disconnected, pending, batchVars, roundVars,
                   slotVars>>

-----------------------------------------------------------------------------
(* One round: run_prioritized_grouped_round_n.                             *)

ScheduledLen == IF Len(active) + Len(waiting) < Slots
                  THEN Len(active) + Len(waiting) ELSE Slots

\* How many waiting tasks fill_slots moves.
Room == IF Len(waiting) < Slots - Len(active)
          THEN Len(waiting) ELSE Slots - Len(active)
Filled_PushesFront == SubSeq(waiting, 1, Room) \o active
Filled == active \o SubSeq(waiting, 1, Room)
Unfilled_Peeks == waiting
Unfilled == SubSeq(waiting, Room + 1, Len(waiting))

\* compatibility_key: only a batchable stream whose handler is still there has
\* one; which group it falls in, if any, is the session's to say.
KeyChoices(j) ==
    IF kind[j] = "stream" /\ cancelAt[j] = -1
      THEN {NoKey} \cup {<<g, prefill[j]>> : g \in Groups}
      ELSE {NoKey}

\* The start of a round: publish the slots it will use, fill_slots, drain the
\* active queue and ask every task for its key.
StartRound ==
    /\ wpc = "dispatch"
    /\ ~BatchEmpty
    /\ occupied' = ScheduledLen
    /\ tasks' = Filled
    /\ waiting' = Unfilled
    /\ active' = <<>>
    /\ todo' = Elems(Filled)
    /\ key' \in {f \in [Jobs -> Keys \cup {NoKey}] :
                    \A j \in Jobs : f[j] \in (IF j \in Elems(Filled)
                                                THEN KeyChoices(j) ELSE {NoKey})}
    /\ wpc' = "pick"
    /\ UNCHANGED <<handlerVars, jobVars, disconnected, pending, solo, starting, exec,
                   sawCancel, outcome, done, begun, slotOf, public, activeId, exclusiveActive>>

\* The key and preference callbacks run outside catch_unwind: a panic in one
\* unwinds the worker, which drops the channel and every task it held.
KeyPanics ==
    /\ wpc = "dispatch"
    /\ ~BatchEmpty
    /\ \E j \in Elems(Filled) : kind[j] = "stream"
    /\ wpc' = "dead"
    /\ occupied' = ScheduledLen
    /\ st' = [j \in Jobs |-> IF st[j] = "accepted" THEN "lost" ELSE st[j]]
    /\ queue' = <<>>
    /\ pending' = <<>>
    /\ waiting' = <<>>
    /\ active' = <<>>
    /\ begun' = {}
    /\ slotOf' = [j \in Jobs |-> 0]
    /\ public' = [s \in 1 .. Slots |-> NoJob]
    /\ activeId' = IF begun = {} THEN activeId ELSE NoJob
    /\ UNCHANGED <<kind, cancelAt, depth, open, jobVars, disconnected, roundVars,
                   exclusiveActive>>

\* Order of execution inside a round: preferred (decoding) tasks first, then
\* prefilling ones, each in queue order.
Ahead(i, j) == \E m, n \in DOMAIN tasks : m < n /\ tasks[m] = i /\ tasks[n] = j
Before(i, j) == \/ ~prefill[i] /\ prefill[j]
                \/ prefill[i] = prefill[j] /\ Ahead(i, j)
IsFirst(j, S) == j \in S /\ \A k \in S \ {j} : Before(j, k)

\* The next leader takes every later task with its key into its group.
PickGroup ==
    /\ wpc = "pick"
    /\ solo = {}
    /\ \E j \in todo :
          /\ IsFirst(j, todo)
          /\ starting' = IF key[j] = NoKey THEN {j}
                         ELSE {k \in todo : key[k] = key[j]}
    /\ todo' = todo \ starting'
    /\ wpc' = "begin"
    /\ UNCHANGED <<handlerVars, jobVars, disconnected, pending, batchVars, tasks, key,
                   solo, exec, sawCancel, outcome, done, slotVars>>

\* A member of a group that declined takes its scalar step, in group order.
PickSolo ==
    /\ wpc = "pick"
    /\ \E j \in solo :
          /\ IsFirst(j, solo)
          /\ starting' = {j}
          /\ solo' = solo \ {j}
    /\ wpc' = "begin"
    /\ UNCHANGED <<handlerVars, jobVars, disconnected, pending, batchVars, tasks, key,
                   todo, exec, sawCancel, outcome, done, slotVars>>

\* begin_step takes the lowest free entry of the public table on a job's first
\* step and keeps it; with none free the job stays out of the table.
FreeSlot(s) == public[s] = NoJob /\ \A t \in 1 .. s - 1 : public[t] # NoJob

\* The look a step takes at the cancellation tokens before it computes.
CancelSeen_Never(S) == S = {}
CancelSeen(S) == \E j \in S : cancelAt[j] # -1

\* begin_step of the next job of the call. The last one leaves the leader's id
\* published, and the job then looks at its cancellation token.
BeginStep ==
    /\ wpc = "begin"
    /\ \E j \in starting :
          /\ IsFirst(j, starting)
          /\ begun' = begun \cup {j}
          /\ \/ /\ slotOf[j] = 0
                /\ \E s \in 1 .. Slots : FreeSlot(s) /\ slotOf' = [slotOf EXCEPT ![j] = s]
                                                     /\ public' = [public EXCEPT ![s] = j]
             \/ /\ slotOf[j] # 0 \/ \A s \in 1 .. Slots : public[s] # NoJob
                /\ UNCHANGED <<slotOf, public>>
          /\ starting' = starting \ {j}
          /\ exec' = exec \cup {j}
          /\ \E f \in exec' : /\ activeId' = f
                              /\ IF starting' = {} THEN IsFirst(f, exec') ELSE f = j
    /\ wpc' = IF starting' = {} THEN "run" ELSE "begin"
    /\ sawCancel' = CancelSeen(exec')
    /\ UNCHANGED <<handlerVars, jobVars, disconnected, pending, batchVars, tasks, key,
                   todo, solo, outcome, done, occupied, exclusiveActive>>

\* clear_public_slot of the jobs of S.
FreedTable_AloneOnly(S) ==
    [s \in 1 .. Slots |-> IF S = {public[s]} THEN NoJob ELSE public[s]]
FreedTable(S) == [s \in 1 .. Slots |-> IF public[s] \in S THEN NoJob ELSE public[s]]

\* The active id after a call: every completing job's guard has zeroed it; a
\* group then republishes the first member that goes on.
ActiveAfter(completing, id) ==
    LET going == exec \ completing IN
    IF Cardinality(exec) > 1 /\ going # {}
      THEN IsFirst(id, going)
      ELSE id = IF completing = {} THEN activeId ELSE NoJob

\* finish_step: the jobs of exec that complete give up guard and public entry.
FinishSteps(completing) ==
    /\ begun' = begun \ completing
    /\ public' = FreedTable(completing)
    /\ slotOf' = [j \in Jobs |-> IF j \in completing THEN 0 ELSE slotOf[j]]
    /\ \E id \in exec \cup {activeId, NoJob} : ActiveAfter(completing, id) /\ activeId' = id

\* Outcomes recorded for every job of exec.
Record(completing) ==
    /\ outcome' = [j \in Jobs |-> IF j \in completing THEN "complete"
                                  ELSE IF j \in exec THEN "continue" ELSE outcome[j]]
    /\ exec' = {}
    /\ sawCancel' = FALSE
    /\ wpc' = "pick"

\* generated.len() < max_tokens, and the end of the prompt.
HasBudget_Inclusive(j) == taken[j] <= MaxSteps
HasBudget(j) == taken[j] + 1 < MaxSteps

\* A scalar or shared step returns. A stream that saw its cancellation, or that
\* has used up its steps, completes; any other may go on or complete. A shared
\* step is never dispatched with a cancelled member.
StepReturns ==
    /\ wpc = "run"
    /\ sawCancel => Cardinality(exec) = 1
    /\ \E completing \in SUBSET exec :
          /\ sawCancel => completing = exec
          /\ \A j \in exec \ completing : HasBudget(j)
          /\ FinishSteps(completing)
          /\ Record(completing)
          /\ taken' = [j \in Jobs |-> IF j \in exec \ completing THEN taken[j] + 1
                                      ELSE taken[j]]
          /\ \E still \in SUBSET {j \in exec \ completing : prefill[j]} :
                prefill' = [j \in Jobs |-> IF j \in exec THEN j \in still ELSE prefill[j]]
    /\ UNCHANGED <<handlerVars, disconnected, pending, batchVars, tasks, key, todo, solo,
                   starting, done, occupied, exclusiveActive>>

\* A shared step declines before it dispatched anything: its members take
\* scalar steps instead.
GroupDeclines ==
    /\ wpc = "run"
    /\ Cardinality(exec) > 1
    /\ solo' = exec
    /\ exec' = {}
    /\ sawCancel' = FALSE
    /\ wpc' = "pick"
    /\ UNCHANGED <<handlerVars, jobVars, disconnected, pending, batchVars, tasks, key,
                   todo, starting, outcome, done, slotVars>>

\* A step panics inside catch_unwind: every job of the call completes, but
\* finish_step never ran, so guard and public entry outlive the step.
StepPanics ==
    /\ wpc = "run"
    /\ Record(exec)
    /\ UNCHANGED <<handlerVars, jobVars, disconnected, pending, batchVars, tasks, key,
                   todo, solo, starting, done, slotVars>>

\* push_back of a continuing task.
Requeued_AtFront(j) == <<j>> \o active
Requeued(j) == Append(active, j)

\* The end of a round walks the results in queue order: a continuing task goes
\* back to the active queue, a completed one is dropped, and with it the guard
\* and the public entry a panic left behind.
CollectResult ==
    /\ wpc = "pick" \/ wpc = "collect"
    /\ todo = {} /\ solo = {}
    /\ tasks # <<>>
    /\ tasks' = Tail(tasks)
    /\ wpc' = "collect"
    /\ LET j == Head(tasks) IN
         IF outcome[j] = "continue"
           THEN /\ active' = Requeued(j)
                /\ UNCHANGED <<done, begun, slotOf, public, activeId>>
           ELSE /\ done' = done \cup {j}
                /\ begun' = begun \ {j}
                /\ slotOf' = [slotOf EXCEPT ![j] = 0]
                /\ public' = FreedTable({j})
                /\ activeId' = IF j \in begun THEN NoJob ELSE activeId
                /\ UNCHANGED active
    /\ UNCHANGED <<handlerVars, jobVars, disconnected, pending, waiting, key, todo, solo,
                   starting, exec, sawCancel, outcome, occupied, exclusiveActive>>

\* The trailing fill_slots and the store of active_len; the round's locals go.
PublishOccupied ==
    /\ wpc = "collect"
    /\ tasks = <<>>
    /\ active' = Filled
    /\ waiting' = Unfilled
    /\ occupied' = Len(Filled)
    /\ key' = [j \in Jobs |-> NoKey]
    /\ outcome' = [j \in Jobs |-> "none"]
    /\ wpc' = "retire"
    /\ UNCHANGED <<handlerVars, jobVars, disconnected, pending, tasks, todo, solo,
                   starting, exec, sawCancel, done, begun, slotOf, public, activeId,
                   exclusiveActive>>

CompletedCount_One == IF done = {} THEN 0 ELSE 1
CompletedCount == Cardinality(done)

\* One fetch_sub for all the completed tasks of the round.
RetireCompleted ==
    /\ wpc = "retire"
    /\ depth' = depth - CompletedCount
    /\ Forget(done)
    /\ done' = {}
    /\ wpc' = "top"
    /\ UNCHANGED <<queue, open, disconnected, pending, batchVars, tasks, key, todo,
                   solo, starting, exec, sawCancel, outcome, slotVars>>

-----------------------------------------------------------------------------
Worker ==
    \/ TakePending \/ RecvCooperative \/ RecvExclusive \/ FinishExclusive
    \/ RetireExclusive \/ StopReceiving \/ RecvClosed \/ ExitOrContinue
    \/ StartRound \/ PickGroup \/ PickSolo \/ BeginStep \/ StepReturns
    \/ GroupDeclines \/ StepPanics \/ CollectResult \/ PublishOccupied
    \/ RetireCompleted

Handler(j) == Reserve(j) \/ TrySend(j) \/ Release(j) \/ Cancel(j)

Next ==
    \/ \E j \in Jobs : Handler(j)
    \/ DropHandles
    \/ Worker
    \/ KeyPanics

\* The worker thread keeps running and every job's step returns (a stream is
\* bounded by its token budget and by its deadline); a handler inside post
\* finishes it. Nobody has to post, to cancel, to panic or to drop a handle.
Fairness ==
    /\ WF_vars(Worker)
    /\ \A j \in Jobs : WF_vars(TrySend(j)) /\ WF_vars(Release(j))

Spec == Init /\ [][Next]_vars /\ Fairness

-----------------------------------------------------------------------------
(* Properties.                                                             *)

Unretired == {j \in Jobs : st[j] # "idle"}
Accepted  == {j \in Jobs : st[j] = "accepted"}
Streams   == {j \in Accepted : kind[j] = "stream"}

\* depth counts every job between its reservation and its retirement, once,
\* and so never wraps below zero: a handler counts before the worker can see
\* the job, each refusal and each completion is subtracted exactly once, and
\* the jobs a dying worker drops stay counted for ever.
DepthExact == depth = Cardinality(Unretired)

\* Everything the worker owns, oldest first: the streams in slots, the one
\* held back, and the channel.
Held == active \o tasks \o waiting \o pending
Backlog == Held \o queue

Distinct(s) == \A m, n \in DOMAIN s : s[m] = s[n] => m = n
Exclusive == IF wpc \in {"exclusive", "lowerDepth"} THEN exec ELSE {}

\* Every accepted job is in exactly one place of the worker, exactly once: the
\* hand-overs channel -> pending -> waiting -> active -> round -> active lose
\* and duplicate nothing, whatever the groups, declines and panics.
OnePlace ==
    LET q == Elems(queue)    p == Elems(pending)  w == Elems(waiting)
        a == Elems(active)   t == Elems(tasks)
    IN  /\ Distinct(queue) /\ Distinct(pending) /\ Distinct(waiting)
        /\ Distinct(active) /\ Distinct(tasks)
        /\ q \cap p = {}
        /\ (q \cup p) \cap w = {}
        /\ (q \cup p \cup w) \cap a = {}
        /\ (q \cup p \cup w \cup a) \cap t = {}
        /\ (q \cup p \cup w \cup a \cup t) \cap done = {}
        /\ (q \cup p \cup w \cup a \cup t \cup done) \cap Exclusive = {}
        /\ Accepted = q \cup p \cup w \cup a \cup t \cup done \cup Exclusive

\* Backpressure is real: besides the channel the worker holds the streams in
\* slots and at most one more job, so no load makes the backlog grow past
\* QueueDepth + Slots + 1.
BacklogBounded ==
    /\ Len(Held) <= Slots + 1
    /\ Cardinality(Accepted) <= QueueDepth + Slots + 1

\* Every step keeps the relative order of the backlog: a job that arrives
\* goes behind everyone else, and neither the held-back stream, the preferred
\* order of a round, nor grouping overtakes anyone for good.
AdmissionFIFO ==
    [][ \A m, n \in DOMAIN Backlog' :
          m < n => \/ st[Backlog'[n]] # "accepted"
                   \/ \E i, k \in DOMAIN Backlog :
                         i < k /\ Backlog[i] = Backlog'[m] /\ Backlog[k] = Backlog'[n]
      ]_vars

\* Streams advance in lockstep: a stream never gets ahead of one admitted
\* before it, except by the one step the current round gives it.
Lockstep ==
    \A m, n \in DOMAIN Held :
        m < n => taken[Held[n]] <= taken[Held[m]] + (IF tasks = <<>> THEN 0 ELSE 1)

\* The public slot table and the jobs agree: each stream that has begun a step
\* owns exactly the entry it remembers, and every other entry is free. In
\* particular begin_step always finds a free entry.
SlotTableExact ==
    /\ \A j \in Jobs : j \in begun <=> slotOf[j] # 0
    /\ \A j \in Jobs : slotOf[j] # 0 => public[slotOf[j]] = j
    /\ \A s \in 1 .. Slots : public[s] # NoJob => slotOf[public[s]] = s

\* A cancelled stream makes at most one more step: the one that was running
\* when the handler went away, shared or scalar.
CancelWithinOneStep ==
    \A j \in Jobs : cancelAt[j] # -1 => taken[j] <= cancelAt[j] + 1

\* The published task id, when it is not the idle sentinel, is that of a job
\* the worker still owns and has started: a snapshot names no finished job.
ActiveIdLive ==
    activeId # NoJob => /\ activeId \in Accepted
                        /\ activeId \in begun \/ (wpc = "exclusive" /\ exec = {activeId})

\* What /slots and the health of the engine show is exact at every moment: the slot
\* table and the active task name the streams that have begun and nobody else,
\* through declined groups, panics in a step and exclusive jobs between rounds.
PublicViewExact == SlotTableExact /\ ActiveIdLive

\* Exclusive jobs (model load and unload, resident resets, non-streaming
\* completions) are never starved by overlapping streams.
ExclusiveFinishes ==
    \A j \in Jobs : (st[j] = "accepted" /\ kind[j] = "exclusive") ~> st[j] # "accepted"

\* A stream finishes unless exclusive jobs keep coming for ever: the receive
\* loop runs them one after another before the next round.
StreamFinishes ==
    \/ []<>(wpc = "exclusive")
    \/ \A j \in Jobs : (j \in Streams) ~> st[j] # "accepted"

\* Once the last handle is dropped the worker thread ends, and unless it died it has
\* finished every job it accepted.
ShutdownCompletes ==
    ~open ~> (wpc = "dead" \/ (wpc = "exit" /\ Accepted = {} /\ depth = 0))
=============================================================================
