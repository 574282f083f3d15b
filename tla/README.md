# Camelid: TLA+ models, checks and proofs

This directory is a verification development of Camelid, a local inference
server for large language models written in Rust. It contains TLA+ modules
translated from the source, TLC configurations that check them on small
instances, and theorems about them that TLAPS proves for every instance.
`PROJECT.json` maps every definition to the source lines it stands for and
lists the runs, the hazards, the findings and the theorems. Paths below are
relative to the repository.

## 1. The system

A client talks HTTP to `camelid serve`. A handler validates the request,
prepares an inference session (weights, tokenizer, KV cache) and hands the
decoding to **one** engine thread, which alone is allowed to compute. The
engine interleaves the open streams token by token; with CUDA it may serve
several streams with one shared dispatch, out of a paged KV cache on the
device. Around this core are a router over several hosts (the fabric), a
desktop shell that owns a server process, a store of responses and
conversations, document retrieval, and the model formats and kernels.

| Part | State | Operations | Interacts through | What is hard |
|---|---|---|---|---|
| Engine worker, `src/api/engine.rs` | bounded channel, `depth`, `pending`, active-task atomics, public slot table | `post`, worker loop, exclusive jobs, cooperative steps, `slot_snapshot` | tokio mpsc, atomics, a mutexed slot table | handlers and worker race on every counter; panics; shutdown; starvation |
| Continuous batch, `src/api/continuous_batch.rs` | `waiting`, `active` | `admit`, `fill_slots`, `run_prioritized_grouped_round_n` | called by the worker, calls back into jobs | preference order, groups, declined groups, rotation |
| Stream decode job, `src/api/mod.rs` | input, generated tokens, cancel flag, prefill state | `step`, `step_group`, keys | events to the SSE handler, cancel flag from it | cancellation during a step, budget edge, slow clients |
| CUDA paged KV, `src/inference/cuda_paged_kv.rs`, `cuda_sequence.rs` | page generations and references, free stack, page tables, sequence slots | reserve, retain, release, prepare/commit/abort append, fork, truncate, acquire, release | called under the resident mutex | reference counts through forks and copy-on-write, stale handles and leases |
| Resident CUDA engine, `src/inference.rs`, `src/cuda_resident.rs` | `Option<ResidentCudaSlot>`: engine, pool, tables, token records, retained prefix | prefill chunk, decode step, batches, prefix adoption, eviction, drop, teardown | one mutex; sessions keep leases across it | one failing row, eviction under a plan, stale leases after a teardown |
| CPU KV cache and block pool, `src/inference/kv_cache.rs`, `kv_pool.rs` | blocks, free list | append, reserve, release | one session | allocator edges |
| Resident model arena, `src/inference/cuda_resident_arena.rs` | engines, pins, LRU | pin, unpin, evict | sessions of several models | eviction of what is in use |
| Generation handlers, `src/api/mod.rs` | the SSE generator of a stream: its receiver, deadline, held tool candidate | receive, deadline, disconnect, ending | the bounded event channel and a cancellation token | deadline against `Started`; a full channel parks the engine; truncation |
| Model lifecycle, `src/api/mod.rs` | about ten registries, each with its lock | load, activate, replace, unload, release, prepare, show | fair locks, leases on model files, exclusive engine jobs | partial failure between registries; lock order; a model taken from its user |
| Responses store, `src/api/responses.rs`, `responses_store.rs` | SQLite rows, a pool of per-key locks | create with replay, items, conversations, deletion | handlers | retries, crashes, a history that changes under a generation |
| Desktop sidecar, `camelid-desktop/src/` | the owned process, `exiting`, the window | start, install, stop, retry, exit | startup threads, window events, the operating system | late startup against exit; a process nobody owns |
| Workspace sessions, `src/api/workspace.rs` | session state, current turn, claim slots, SQLite turns | claim, send, cancel, expire, delete; worker and forwarder threads of a turn | locks taken one at a time, an event channel | cancel against claim and completion; a turn nobody ends or saves |
| Fabric, `src/fabric/` | nodes, probes, watch, client keys | probe, place, forward, cancel | HTTP to nodes | stale load, retries, cancellation |
| Distributed inference, speculative decoding | remote layers; draft and verified tokens | forward, verify, roll back | TCP; the KV cache | lost peers; KV rollback |
| Documents, chat client, authentication, formats, kernels, downloads, telemetry, frontend | see `components` in `PROJECT.json` | | | I/O, parsing or numerics rather than protocol |

What makes the modelled parts correct:

* engine: nothing accepted is lost or done twice; the counters and the public
  view are exact; back-pressure is real; admission is first come first served
  and streams advance together; cancellation is prompt; nobody starves; a
  shutdown drains.
* paged KV: references equal holders; the device has exactly the pages the
  pool handed out; every row holds what its sequence computed, whatever was
  shared; no sequence below its limit is refused a page; one row's failure
  costs the others no more than the code says.
* streams: what a client sees is the generated text up to its stop sequence, no
  more and no less; an ending is true; a slow or vanished client, a deadline or
  a panic leaves no stream without an end.
* responses: a key generates once and answers once; a turn is generated from the
  history it is appended to; what was answered is stored.
* registries: between transitions they agree; nobody loses the model in use; a
  load or unload that answers success has done its work; every request ends.
* sidecar: each engine process has one owner; nothing starts after the exit.
* workspace: an answer shown is an answer saved; a cancelled turn stays
  cancelled; every turn ends and frees its session.

## 2. Modules

| Module | What it is |
|---|---|
| `EngineWorker` | the engine thread, its channel, the scheduler and the public slot table |
| `EngineService` | the abstract specification: what an engine promises its callers |
| `EngineRefinement` | the mapping from `EngineWorker` to `EngineService` |
| `EngineSlotSnapshot` | the active-task atomics store by store, against a reader load by load |
| `CudaKvPages` | pool and table operations as operators on values |
| `CudaPagedKv` | the resident engine slot on the paged lane, over `CudaKvPages` |
| `StopText` | stop sequences: where a text is cut and how much of it may be shown |
| `StreamDelivery` | decode job, event channel and SSE generator of streamed replies, over `StopText` |
| `ModelRegistry` | loads, unloads, generations, embeddings and turns over the registries and their locks |
| `ResponsesStore` | `/v1/responses` and conversations over the lock pool and the database |
| `Sidecar` | the desktop shell and the engine processes it starts |
| `WorkspaceSession` | one Workspace session, its turns and their two threads |
| `EngineWorkerProofs` | TLAPS proofs about `EngineWorker`, `EngineRefinement` and `EngineSlotSnapshot` |
| `PagedProofs`, `PagedRowProofs` | TLAPS proofs about `CudaKvPages` and `CudaPagedKv`: who holds which page and how many; what the rows contain |
| `StreamProofs`, `RegistryProofs`, `ResponsesProofs`, `SidecarProofs`, `WorkspaceProofs` | TLAPS proofs about the module of that name |
| `MC*` | symmetry sets, workloads and deployments for TLC |

`MC*.cfg` are the instances. A definition `X_Suffix` that stands before `X` is
`X` with a plausible mistake; `PROJECT.json` lists it as a mutant of `X`, and
TLC finds the mutant's property violated. Every property has one.

### 2.1 EngineWorker

A job is an identifier that is free, being posted, refused, accepted or lost
(`st`); it becomes free again when its depth is given back, so a bounded set
of jobs stands for an unbounded stream of them.

Handlers: `Reserve` and `TrySend` are `post` (the count, then the `try_send`),
`Release` undoes the count after a refusal, `Cancel` is the drop of the
handler's guard, `DropHandles` that of the last `EngineHandle`.

Worker: `wpc` is where the loop stands. `TakePending`, `RecvCooperative`,
`RecvExclusive`, `FinishExclusive`, `RetireExclusive`, `StopReceiving`,
`RecvClosed`, `ExitOrContinue` are the receive half. A round is `StartRound`
(fill the slots, drain the active queue, ask for keys), `PickGroup` (the first
task in preference order with everyone who shares its key) or `PickSolo` (a
member of a declined group), `BeginStep` per job (publishes the task and takes
a public slot), then `StepReturns`, `GroupDeclines` or `StepPanics`,
`CollectResult` per task in queue order, `PublishOccupied` and
`RetireCompleted`. The steps are split where another thread can tell the
difference, and a step's computation is an interval, from `BeginStep` to its
return, during which handlers act. `KeyPanics` is a panic in a callback that is
not inside `catch_unwind`: the thread dies and what it owned is lost.

Data left out: tokens, prompts, times (in `EngineSlotSnapshot`) and prompt
progress. A key is a group and a prefill bit, or none.

### 2.2 EngineSlotSnapshot

The order of the stores is that of `post`'s closure, `begin_step` and
`publish_aggregate` (timestamps, units, id) and that of
`ActiveTaskGuard::drop` (id, timestamps, units). The reader's order is that of
`slot_snapshot`: id, clock, started, last progress, units. All of them are
`SeqCst` in the code, so interleaving semantics is exact. The specification is
`SnapshotSpec`, from `SnapshotInit` and `SnapshotNext`: `EngineWorkerProofs` extends
this module beside `EngineWorker`.

### 2.3 CudaKvPages and CudaPagedKv

A pool is a record of generations, reference counts, the free stack and the
number of pages pushed; a handle is `<<index, generation>>`; a table is a
sequence of handles and a length. `prepare_append_batch` walks token by token;
its effect is the pages it needs (`Needed`), in the order `allocate_one` hands
them out (`Picked`), and `Exhausted` is its error path, which leaves the
generations moved.

An operation holds the resident mutex from its first step to its last, so at
most one is in progress (`op`), and between operations sessions interleave
freely. Within one the model goes row by row: `PlanRow` / `EvictPrefix` /
`PoolExhausted` / `DeviceFails`, then `Forward` or `KernelFails`, then
`CommitRow` and `Finish`, or `AbortRow` and `EndAbort`. `Drop` is the drop of a
session, the one operation with a single step. The content of a KV row is the
sequence of tokens it was computed from: the kernel appends its token to what
it reads in the row before, *through the page table it was given*, so a wrong
page, a stale copy or a reused row of another conversation is visible as a
wrong content.

`MaxPos` is `min(max_pos, SPLITK_THRESHOLD)`; both ways the code treats a decode
step past it are there (`PastThreshold` where the split-K bound is the smaller
one, `CheckCursor` where `max_pos` is). Engine construction may fail
at any time (`Build`), and so may every device call. External: the CUDA driver,
modelled by what the code does with its errors. Not modelled on this lane:
rebuilding for another model key, the optional host mirror's content (its
failure is there), `CAMELID_CUDA_PREFIX_CONTINUATION=0`, and counters.

The branches of the code that only an internal inconsistency can reach (a
table without a slot in `Select`, a refused commit in `CommitRow`) are in the
model; `SlotsMatchTables` and `CommitsAccepted` say that they are never taken.

### 2.4 StopText and StreamDelivery

`StopText` has the text functions of the streaming lane as operators:
`truncate_at_stop`, `stop_safe_stream_len`, `stop_visible_text`, `stream_delta`
and `stop_hold_back_flush`. A text is a sequence of characters.

In `StreamDelivery` all streams share one engine (`engine`, `phase`), which runs
the job of one of them. `Prologue` is the beginning of a job with its cached
first token, `Forward` one decode step, `StepOver`, `StepAbandoned` and
`StepTimedOut` the checks before it, `FinishEvents` what an ending sends. A
forward leaves its events in `sends`, and `BlockingSend` puts them in the
channel one by one: while the channel is full the engine thread is parked, for
everybody. The generator takes events (`Recv`), loses the race against its
deadline (`RequestDeadline`), sees the channel closed (`ChannelClosed`) and ends
(`Return`); the client may `Disconnect` at any time. The two lanes differ as in
the code: a cooperative job yields after each forward and flushes in
`finish_clean`, an exclusive one runs to its end under its own deadline. The
request of each stream is a variable that never changes, chosen in `Init`.

Left out: tokens (a forward generates some text of `Tokens`), reasoning and tool
call parsing (a tool candidate holds all content back until the end), usage, and the
death or shutdown of the engine thread, which `EngineWorker` has.

### 2.5 ModelRegistry

A handler is a task with a place in its code (`pc`), and one action is the code
between two awaits. Locks are queues, since tokio's locks are fair: a reader
waits behind a queued writer. `Begin` starts a request and may refuse it;
`Resident` to `Serve` are `load_model` and `get_or_load_model`, `Unload` to `Trim`
are `release_model` and what calls it, `Pick` to `Decode` choose, lease, verify and
load what a generation needs, `Look` to `EncoderLoad` an embedding, `Show` and
`ShowLoaded` the handlers that show the current model, `GiveUp` the timeout of
the bounded ones, `Turn` and `TurnEnds` a Workspace turn. `HangUp` drops a handler
at any await; `torn` remembers that this happened in the middle of a release,
which the code does not repair and the invariants between transitions exclude.

`site` is what a server and its clients are like: which files are of which kind,
what is loaded at startup, CUDA, memory, and the requests that are sent.

Left out: `delete_local_model`, chat routing over runtime lanes,
`bind_expected_loaded_artifact`, LRU limits, and the leaf locks that are taken in
one order and never across an await.

### 2.6 ResponsesStore

A request is a task. `ForKey` asks the pool for the next lock of its sorted keys
(`KeySeq`); the pool forgets locks nobody references (`Unused`). `Lookup` is the
idempotent replay, `Load` reads the history, `Commit` is the one transaction and
`Reply` the answer; `AddItems`, `UpdateConversation`, `DeleteItem`,
`DeleteConversation`, `CreateConversation` and `DeleteResponse` are the other
handlers. `Fail` is an error of generation or database, `Disconnect` drops the
handler, `Crash` restarts the server with the database as it was. SQLite
(external) is taken to be atomic and durable per transaction. `workload`, chosen
in `Init`, is the set of requests clients send.

### 2.7 Sidecar

Each startup is a thread: `DropPrevious`, `Locate`, `SpawnChild`, `Capture` (the
assignment to a job object, which may fail without consequence, and the stderr
capture, whose failure ends the startup), then `TryWait`, `Probe` and `Deadline` until the child is
healthy, `Install` or `DropRejected`, and `Navigate`. Its child boots, binds its
port and exits on its own (`Bind`, `ChildExits`). `Retry` is the command of the
page, `ExitEngine` and `ExitDrops` the exit handlers, `ProcessEnds` and `Crash` the
end of the application, with which its threads end where they are and, on
Windows, the children that were put in a job object. Taking an engine out of the slot and
dropping it are two steps, as in the code. `site` tells the two builds apart, and
users who wait from those who ask for a restart while one is under way.

### 2.8 WorkspaceSession

An installed turn is a run with a message id. `Claim` is `session_events`, which
starts the two threads: the worker (`Start`, `Loop`, `Report`, `WorkerEnds`,
`Panic`) and the forwarder, which saves before it completes and tells (`Save`,
`Complete`, `Tell`, `GiveUp`, `Break`, `SaveAborted`, `CompleteAborted`). The
channels between worker, forwarder and client are bounded: in `Wait` the client has
stopped reading and the forwarder waits in `blocking_send`, in the middle of the
turn or before its last event, until the client reads on (`Read`) or its stream ends
(`StreamDrops`), which makes the send fail. The worker may have to wait behind it;
how far it gets before is left open. `Expire` is the claim deadline. `Send`, `LookUp`, `Lock`, `ReadContext`, `Install` are
`send_message`; `SetFlag`, `LookWaiting`, `CloneConfig`, `SetState`, `SaveCancelled`,
`FinishCancelled` are `cancel_session`, one step per lock; `CheckDelete` and
`Delete` are `delete_thread`. `create_session` is `Init`. `site` gives the requests,
whether their client waits for an answer before it sends the next request
("patient"), how often the database fails and how often a client stops reading.

Left out: compaction and undo, approvals (`decide`), resuming another thread and
the tools.

## 3. Runs

| Run | Instance | Distinct states | Shows |
|---|---|---|---|
| `engine_rounds` | 3 jobs, 2 slots, queue 1, 3 steps, 1 group | 964 000 | `TypeOK`, `DepthExact`, `OnePlace`, `PublicViewExact`, `Lockstep`, `CancelWithinOneStep`, `AdmissionFIFO` |
| `engine_refinement` | 5 jobs, 2 slots, queue 1, 1 step, 1 group | 654 000 | `BacklogBounded`, `ImplementsService` |
| `engine_liveness` | 3 jobs, 1 slot, queue 1, 2 steps, no groups | 123 000 | `ExclusiveFinishes`, `StreamFinishes`, `ShutdownCompletes` |
| `slot_snapshot` | 2 tasks, clock 2, 1 unit | 528 000 | `SnapshotSound` |
| `paged_odd` | 2 sessions, 2 tokens, 2 slots, page of 2, capacity 3 | 237 000 | `PagesExact`, `RowsExact` |
| `paged_three` | 3 sessions, 1 token, 2 slots, page of 2, capacity 4 | 1 385 000 | `NoInconsistency`, `CapacitySuffices` |
| `stream_delivery` | 1 stream of up to 4 tokens or 2 of up to 2, channel of 1 | 1 100 000 | `DeliveredWhole`, `NeverTakenBack`, `EndingIsTrue`, `AnsweredMeansStopped`, `StreamsEnd` |
| `registry` | 2 ids, 2 files, 2 or 3 handlers, 3 requests, 4 servers | 361 000 | `RegistriesAgree`, `InUseStays`, `UnloadAnswersFreed`, `LoadAnswersServable`, `RequestsEnd` |
| `registry_cross` | 3 handlers, one of them an unbounded reader | violated | `RequestsEnd`; section 5 |
| `responses` | 3 workloads of 4 or 5 requests, 1 key, 1 conversation, 1 crash | 253 000 | `HistoryIsolated`, `OncePerKey`, `TurnsAreDurable`, `EveryRequestEnds` |
| `sidecar` | 3 startups, 2 ports, 2 polls, both builds, both users | 748 000 | `NoStrayEngine`, `StaysStopped`, `WindowShowsInstalled`, `StartupEnds` |
| `workspace` | 2 turns, a cancel or a deletion, 1 database error, 1 pause of a client, 5 clients | 1 236 000 | `AnsweredIsStored`, `SessionSound`, `CancelIsKept`, `TurnsEnd`, `DeleteSparesActive` |

Several invariants are conjunctions of named parts, one per idea: `PagesExact` is
the types, `RefsExact` and `DeviceExact`, and so on.

Why these bounds are enough for the cases at stake:

* *Jobs and slots.* With more jobs than slots and than queue places there are
  refusals, a held-back stream and a full batch at the same time; two slots hold
  a group of two, or two singles, beside a stream that waits. A job is reused
  after it retires, so behaviours are not bounded in length.
* *Steps.* Three steps let a stream continue, complete and be cancelled in
  different rounds. The refinement needs one.
* *Groups.* One group beside "no key", in two phases, gives compatible,
  incompatible and unbatchable jobs.
* *Pages.* Pages of two tokens have a partial and a full last page. Capacity 3
  is not a whole number of pages (the rounding of `for_engine` matters), capacity
  4 is. `paged_odd` has sessions that run past the capacity (`MaxTokens` is one
  more); two tokens make prompts with every length of common prefix.
* *Sessions.* Two share and evict; with three on two slots a slot is reused,
  a session is declined, and a third party holds a stale lease through a
  teardown. `Slots` is 2 where the code allows 8: a batch of two has an earlier
  and a later row, which is what the plan and abort order are about.
* *Clock.* `StallIsReal` only needs the clock to be positive and to move.
* *Streams.* Four tokens over two letters reach stop sequences of up to three
  characters that overlap, nest and straddle tokens; a channel of one event is
  full after one. With two streams one is parked, queued or stepping while the
  other ends in any way.
* *Registries.* Three requests on two handlers are a transition, a request it
  interferes with and one before or after; the lock cycles need three handlers
  (`Polling`, `Crossing`). Room for one model or two makes the preflight refuse.
* *Responses.* A first attempt, its retry, another body under the same key and a
  follow-up; two turns, an item added, one deleted and the conversation deleted;
  and requests whose lock sets overlap pairwise. Four items reach the limit.
* *Sidecar.* Three startups: one that is replaced, one that replaces it and one
  late. Two ports are reused by the third. Two polls have a last one. Patient users
  have the build with job objects, which does all the other does since assignments
  may fail; impatient users the one without, as a job object changes nothing before
  the application ends.
* *Workspace.* Two turns and one request that interferes; both turns may expire,
  be claimed, panic or lose their client. One pause parks the forwarder of either turn,
  at any point of it, under a cancel request, a follow-up or a database error.

A variable `site`, `workload` or `request` that `Init` chooses and no step changes
puts several deployments into one run; each behaviour is of one of them.

Symmetry: jobs, sessions and tokens are interchangeable, since no definition
and no property names one. The liveness run uses no symmetry.

`CHECK_DEADLOCK FALSE`: the worker may exit or die and then nobody can move
once every handler is done; in `CudaPagedKv` every session ends, and in the other
modules the requests, startups or streams of the instance do. That nobody is
stuck before is what their liveness properties say. The run of
`EngineSlotSnapshot` checks deadlock.

### Fairness

`EngineWorker` assumes weak fairness of the worker as a whole and of a handler
that is inside `post`. The worker is a thread of its own in a loop without
waits other than the receive, and `post` has no wait at all. A job's step is
assumed to return: a stream is bounded by its token budget and its request
deadline. Nobody is assumed to post, cancel, panic or drop a handle.

The other modules assume that whoever can go on by itself does, as one weakly
fair disjunction, and nothing of clients except where said:

* `StreamDelivery`: the engine thread runs, and every client reads on or goes
  away. The code needs the second: `blocking_send` has no timeout and the
  request deadline is disarmed once the job has started, so a client that
  neither reads nor closes parks the engine. Both deadlines may fire or not.
* `ModelRegistry`: some handler that holds what it waits for is polled; a decode
  and an exclusive job end. Nobody need hang up, poll or send.
* `ResponsesStore`: the same; a generation ends by itself. For a streamed
  `/v1/responses` this is a demand on the client: the guards of the request's locks
  live in its SSE stream (`src/api/responses.rs:1193`), so a client that neither reads
  nor closes it keeps the key and the conversation for as long as it likes.
* `Sidecar`: some startup thread that can run does, and an exit that has begun is
  carried through. A child owes nothing: it may boot for ever.
* `WorkspaceSession`: the two threads of a turn, the claim deadline and a handler
  that has begun go on; the agent loop ends since each model step has a deadline.
  No client owes a claim, a request or an open stream. Nor is one assumed to read:
  the forwarder makes no step while it waits for an unread stream, no fairness is
  assumed of a worker behind it, and `TurnsEnd` is conditional. It promises
  that turns end if again and again no stream is kept open unread. The code needs the
  condition: neither send has a timeout, and a cancel request only sets a flag, so a
  client that keeps its stream open and does not read keeps the session running or
  cancelling, and with it every load and unload of a model out. Without the
  condition TLC shows this in 13 states.

`StreamFinishes` has the exception the code has: the receive loop runs
exclusive jobs one after another before it starts the next round, so a
never-ending supply of them keeps the streams from stepping.

## 4. Proofs

A theorem holds for every value of the constants that satisfies the named
assumptions of its module, which every run evaluates on its instance. Each
safety theorem has the same shape: an inductive invariant `IInv`, `Init => IInv`,
`IInv /\ [Next]_vars => IInv'` action by action, and `IInv => Inv`. Every inductive
invariant below was first model-checked on the instance of the module's run.

| Module | Theorem | States |
|---|---|---|
| `EngineWorkerProofs` | `TypeCorrect`, `DepthCounts`, `PlacesExact`, `Backpressure` | `TypeOK`, `DepthExact`, `OnePlace`, `BacklogBounded` |
| | `ViewIsExact`, `CancelIsPrompt`, `StreamsInLockstep` | `PublicViewExact`, `CancelWithinOneStep`, `Lockstep` |
| | `ServedInOrder` | `AdmissionFIFO` (an action property) |
| | `WorkerImplementsService` | `ImplementsService` (the refinement) |
| | `SnapshotsAreSound` | `SnapshotSound` of `EngineSlotSnapshot` |
| `PagedProofs` | `PagedInvariant` | the inductive invariant |
| | `PagesAreExact`, `NeverInconsistent` | `PagesExact`, `NoInconsistency` |
| | `CapacityAlwaysSuffices` | `CapacitySuffices` |
| `PagedRowProofs` | `RowsAlwaysExact` | `RowsExact` |
| `StreamProofs` | `StreamsEndTruly`, `AnsweredCostsNothing` | `EndingIsTrue`, `AnsweredMeansStopped` (action) |
| `RegistryProofs` | `RegistryInvariant` | the inductive invariant |
| | `RegistriesCorrect`, `InUseCorrect` | `RegistriesAgree`, `InUseStays` |
| | `LoadCorrect`, `UnloadCorrect` | `LoadAnswersServable`, `UnloadAnswersFreed` (actions) |
| `ResponsesProofs` | `HistoriesAreIsolated`, `KeysActOnce`, `TurnsStay` | `HistoryIsolated`, `OncePerKey`, `TurnsAreDurable` |
| `SidecarProofs` | `ProcessesOwned`, `ExitIsFinal`, `WindowIsCurrent` | `NoStrayEngine`, `StaysStopped`, `WindowShowsInstalled` |
| `WorkspaceProofs` | `SessionIsSound`, `AnswersAreStored` | `SessionSound`, `AnsweredIsStored` |
| | `CancelStays`, `DeletesSpareActive` | `CancelIsKept`, `DeleteSparesActive` (actions) |

### 4.1 The engine's queues and counters

For all `Jobs` (finite), `Slots`, `QueueDepth`, `MaxSteps` and `Groups`, from
`JobsAssumption` (finitely many jobs, the sentinel is none of them),
`BoundsAssumption` (slots, queue depth and steps are positive, as
`continuous_batching_slots` and `queue_depth_from_env` guarantee) and
`KeysAssumption`.

The inductive invariant is `IInv == TypeOK /\ DepthExact /\ OnePlace /\
RoundPhase`. Neither `DepthExact` nor `OnePlace` is inductive alone.
`RetireCompleted` subtracts the size of `done`: that this is the number of jobs
it frees needs `done` to be accepted jobs, which is `OnePlace`. `OnePlace` in
turn needs to know what the worker's locals hold at each point of its loop: an
exclusive job is the only member of `exec`; no round is open while the worker
receives; the held-back stream is at most one; and what is in slots, in the
round and waiting never exceeds the slots, so that `fill_slots` splits the
waiting queue and drops nothing. That is `RoundPhase`.

`BacklogBounded` needs more: the completed jobs of a round are still accepted
until their depth is given back, so the bound has to count them too, and an
exclusive job takes the place of the held-back stream. `Bounded` adds these, and
`Invariance2` proves it relative to `IInv`.

The proofs go action by action (`TypeStep`, `DepthStep`, `PlaceStep`,
`PhaseStep`, `BoundedStep`), over lemmas about what `Append`, `Tail`, `\o` and
`SubSeq` do to the elements of a duplicate-free sequence. `BoundedBacklog` adds
up the parts: a sequence has at most as many elements as places (`ElemsCount`),
a union at most as many as its parts (`UnionCount`).

### 4.2 The engine's rounds and the refinement

`RInv` is inductive relative to `IInv`:

* `RoundSets`: the sets of a round (to pick, declined, starting, being called) are
  disjoint, are tasks of the round, and their members have no outcome yet. Without
  it a task could be stepped twice in a round.
* `Traces`: who has a public slot, an outcome or a step behind it is in the slots,
  in the round or completed.
* `SlotTableExact`, `ActiveIdLive`: `PublicViewExact` itself.
* `CancelFresh`: in a call that has not looked at the token since, a cancelled
  stream has taken no step since the cancellation. `CancelWithinOneStep` alone
  would let such a call take the second one.
* `Closing`: nobody posts behind the last handle, so a disconnected channel stays
  empty. The shutdown of the abstract service needs it.

`Lockstep` compares steps in the middle of a round, where some tasks have had
theirs. `Levelled` compares `Base`, the steps before the round, along the order of
the whole backlog (`InOrder`): those in front were at least as far. Steps do not
change `Base`; the end of the round does, for all its tasks at once. The lemmas
behind `AdmissionFIFO` say what the worker's moves between the parts of the
backlog do to `InOrder`, and `Levelled` uses them again.

`WorkerImplementsService` maps initial states to initial states and every step to
a step of `EngineService` or to none, case by case: `TrySend` is `Take` or `TurnAway`,
the last `BeginStep` of a call and `RecvExclusive` are `Start`, `RetireCompleted` is
`Complete`, and so on. `Take` has to find room among `Capacity` owned jobs, which is
`Backpressure`. `ImplementsService`
is the safety part; the liveness of the service is checked by `engine_liveness`.

### 4.3 The slot snapshot

The last part of `EngineWorkerProofs`, from `TasksAssumption` and `ClockAssumption`. The worker's stores that
are still to come are `plan`, the reader's loads `rpc`. `SlotDated` says that a task
under way has a start time. `SlotOrdered` says that the atomics never show an id
without one: a publication stores the start before the id, a drop zeroes the id
first. `SlotWitnessed` carries this to the reader: one that has seen an id, with no drop
since, sees an id still and therefore a start.

### 4.4 Streams

For all loads (streams, requests, stop sequences, limits), tokens and channel
capacities; from `StreamAssumption`. `Turns` says which phases of a job and of
the engine go together, `LastWords` what a job that has ended
leaves behind: a terminal event in its channel or in its sends, or a closed
receiver, or a panic. `LastFrame` relates the ending a client saw to the event it
came from. Channels are reasoned about as sets of kinds of events (`KindsOf`), and
actions by their effects on them (`Spoken`, `Thinks`, `Left`, `Served`), so that no
fact about the text is needed.

### 4.5 Registries

For all clients, ids, files, servers and requests, from `RegistryAssumption` (the
shapes of a server and of its requests, and sentinels that are no id and no file).
`RegistryInv` has four layers.

* `LockTable` and `HeldLocks`: `Shared(l, p)` and `Sole(l, p)` say which handlers, by
  their place `p`, stand in the queue of lock `l` and in which mode, `Kept(l, p)`
  which of them got it before. Each action is checked against this table (`MayGo`,
  `MayAsk`), and two lemmas about a fair queue do the rest: whoever holds a lock
  holds it still when others leave or join (`Drops`, `Asks`), and a writer that
  holds it is alone (`Exclusion`). So at most one handler is in a transition, and
  while a release runs no generation is between its lease and its end.
* `Relies(c)`: what a handler may rely on at its place. `OnLoaded` says that a
  generation from `use` on and a load after it published find their record,
  `Undisturbed` that no turn began since the transition looked for one, `Freeing`
  that the targets of a release stay off the device, `Runs` that a runnable model's
  runtime is there before it answers. `Apart` and `OthersRely` show that a step of
  one handler leaves alone what the others rely on, which is where the locks are
  used.
* `Sound`: what the registries keep at every moment. `ActiveSound` and `LeftSound` are
  the two halves of `RegistriesAgree` with the handlers that are half way named
  (`Moving`, `Dropping`, `Coming`); `DeviceSound` says that what is on the device is
  loaded, `Stored` that only files of an id come to be recorded under it.
* Between transitions nobody is half way (`QuietAlone`), which gives
  `RegistriesAgree`; `OnLoaded` at `decode` gives `DecodingIsLoaded`.

For the two action properties `Owning` shows that a step changes one task and can
answer success only at a few places; `LoadServes` and `UnloadFrees` look at those.
Both speak of ids that one file is ever loaded under (`OneFile`): for others they
are false, section 5, items 16 and 17. The proof found these two, as steps that
could not be proved, and TLC gave the behaviours.

### 4.6 Responses

For all requests, keys, conversations, item limits and numbers of crashes, from
`TasksAssumption` and `RowAssumption` (the sentinel is not a row). `Locking` is the
heart: whoever holds or waits for a lock is in its queue, and the pool still
maps the key to that lock. It is inductive because `for_key` forgets only locks
nobody references. With it two holders of one key are the head of one queue
(`Exclusion`). `ReadStands` follows: while a request is between its read and its
commit, every other action on the conversation or key would need a lock it holds.
`RowsTrue`, `StoredFirst` and `TurnsAreWhole` then follow through the one
transaction (`CommitStep`), the other handlers (`ConversationStep`) and the
crash (`CrashStep`), which drops all locks and all tasks but no row.

### 4.7 Sidecar

For all numbers of startups and polls, ports, and mixes of builds and users.
`Ownership` says where a process can be in each phase of its startup, and that no
two threads hold one engine; `ThreadLocals` what a startup thread has by then, and
`JobsClosed` that the end of the application spares nothing in a job object, which
does not need every assignment to succeed. `SoleOwner` counts owners, so its proof ends
with the cardinality of a singleton. `EndLeaves` follows from who owned what when
the application ended: with the slot empty for good (`StaysStopped`) and the main thread
holding nothing, a survivor was still with its startup or with a thread about to drop it. `OneAtATime` is what makes the window current: of patient users one
startup is under way, and the slot is empty until it installs.

### 4.8 Workspace sessions

For all messages, requests and bounds on database errors and pauses, from
`WorkspaceAssumption`.
`Typed` gives every run its row in every table, `Phases` which states of worker,
forwarder and slot go together, `BusyHasTurn` is the property. `Patience` says what a
client that sends one request at a time excludes, and `ErringCost` that a
deadline's failure was a database error. `AnswersAreStored` assumes `NoRepeats`, that
every request carries an id of its own, since the code itself can run a repeated
id twice (section 5, item 14) and then the second outcome is the saved one; with
it, `StoreInv` adds that runs have distinct ids, that a cancelled patient turn is
`Doomed`, it can answer no more (`CancelDooms`), and that what is saved for a run
before its own forwarder saves is of such a run (`SavedFirst`). The
other three theorems have no such hypothesis.

### 4.9 The paged KV cache

For all sessions (finite), slots (1 to 8), page sizes, position limits and prompts,
from `PageAssumption`, `SessionAssumption` and `SizeAssumption` (the pool has the
pages of `slots` full contexts, rounded up once, as the engine's construction
computes it). `PagedInv` is inductive:

* `Counted` is `RefsExact` with everything it needs. `Cnt(T, C, D, p)` adds up the
  holders of a page by kind: tables, the retained prefix, and the reservation of a
  pending append. `Refers` says that this is its reference count, that handles are of
  the current generation, and that a reserved page has one holder only; `PoolSound`
  that the free stack is exactly the used pages nobody holds, each once. Without
  the last, `Reserve` could hand out a page twice.
* `Mirrors`: the device has the generation of a page while it is held, and nothing
  else.
* `Pends`: the plan of a row is still right when it is committed. Its start is the
  length of the table, its pages are those of the table (less the shared one that is
  copied) and then the reserved ones, and they are as many as the new length needs.
  Rows planned or committed in between do not disturb it, since they are other
  sequences and pages they reserve or release are not the row's last page.
* `Tails`: the page a sequence writes next is its own. The exception is `Adopting`, a
  prefill that has taken over a prefix whose last page is partial and has not
  committed its copy.
* `Seated`: leases, slots and tables name each other.
* `OpShape`, `OpStages`, `Appending`, `Going`: what an operation holds at each of its
  stages, and that it appends no more than the session has left.

The lemmas go from the inside out. `TakeIs`, `RetainIs`, `ReleaseIs`, `ForkedIs` and
so on say what the operators of `CudaKvPages` return. `HoldersAre`, `TabMove` and
`PendTail` say what replacing one table, or taking one pending append away, does to
`Cnt`, and lemmas such as `CommitRefers` put the two together for one operation. Then there
is one lemma per action (`PlanRowInv`, `CommitRowInv`, `FinishInv`, ...); `TeardownInv` is
used by each that may drop the engine. `PagesExact` and `NoInconsistency` follow from
`PagedInv` (`PagesAre`, `ConsistencyIs`).

`Release` lists the pages it frees by their place in the table (`Ordered`) and not with
`SelectSeq`, whose value is recursive and out of the prover's reach; TLC agrees that
the stack is the same.

#### How much is held

`CapacityAlwaysSuffices` is the claim behind the size of the pool: when positions fill
whole pages, a row that is below the capacity never finds the pool empty. `PagedInv` says
who holds a page but not how many pages there can be; `SizeInv` adds that:

* `InStep`: the phase of a row of an operation stays what the operation requires, though
  other sessions may be opened meanwhile; so `Roomy`, that what the operation is about to
  append ends within `MaxPos`, is kept until the row is committed.
* `TablesFit`, `PromptsFit`: a table, and a prompt that is still to be computed, are within
  `MaxPos`.
* `Blamed`: an operation that failed for want of pages is one of those the property
  excuses. It is where the count is used.

The count: the pool runs out only when no prefix is retained (`EvictPrefix` comes first).
Then every page in use is at some place of the *claim* of a sequence, the table it has or
will have once its pending append is committed, less a page that the row is about to
copy (`ClaimsCover`). A claim has at most `DivCeil(MaxPos, PageTokens)`
places, and sequences have distinct slots (`Seated`), so claims map into
`Slots` times that many places, which is the capacity when `MaxPos` is a multiple of
`PageTokens` (`ShareIs`). What the row asks for are further places of its own claim, so the
pages it needs are free (`ClaimsLeaveRoom`). A page that is shared is counted once and
claimed several times, and sharing therefore only helps. When `MaxPos` is no multiple,
the capacity is rounded once and each claim is rounded, and two full sequences may need a
page more than there is: the instance of `paged_odd` has three pages where they need four.

#### What the rows contain

`RowsAlwaysExact`, over `PagedInv` and `SizeInv`: every row of a live sequence and of the
retained prefix was computed from exactly the tokens it stands for. `Holds(d, hs, n, x)`
says so of the first `n` rows of the pages `hs` and a text `x`. `RowInv` has it for the
tables (`TablesHold`), the retained prefix (`PrefixHolds`) and the rows that are
planned or computed and not committed (`PendsHold`), together with what a text is at each
point:

* `Text`: the text of a sequence is its tokens and, in a decode step, the token the step
  was given; `Chunk` and `InText` say that the input of an operation is what comes
  next in it, and `Unsettled` that the row of a decode step is not in the table
  before its commit.
* `Recorded`: the record of a sequence is a beginning of its tokens. It is
  what a dropped sequence's prefix is retained under, so it may never be ahead of the rows.
* `Started`: which phases have a table, and that a decoding session's cursor is the end
  of its tokens.

Two facts carry the proof. A kernel writes only where nobody else reads: a place that a
row of the operation writes is in no other table, in no other pending append and not in
the prefix (`WrittenAlone`, `OneWriter`, `FoundUnwritten`, `TableUnwritten`,
`PrefixUnwritten`), which is where `Tails` and `Refers` of `PagedInv` are needed. And what
it writes continues the text, if the row before it holds (`ComputedText`, `Continues`,
`ForwardRows`). The rest is one lemma per action; the ones with an argument of
their own are `AdoptRows` (the rows of a common prefix of two texts are the same),
`PlanRowRows` (the copied page has the rows of the shared one), `CommitRowRows`, and
`DropHeldRows` (the record is the text of the retained rows). No induction over tokens is
needed, since a model's kernel row is the row before the chunk and a `SubSeq` of the input.

### 4.10 Only model-checked

* Liveness, in every module: fairness and `ENABLED` are outside the prover's
  reach.
* `DeliveredWhole` and `NeverTakenBack`: what the text functions of `StopText`
  compute over a growing text is a fact by induction over data, which the prover
  cannot instantiate.

Every other safety property of a passing run is stated by a theorem.

## 5. Findings

`registry_cross` ends with a violation. `get_or_load_model` keeps the read guard of
`loaded_models` while it waits for the write lock of `active_model_id`
(`src/api/mod.rs:17414`); `current_model`, `/props` and `/slots` keep the read guard
of `active_model_id` while they wait for `loaded_models`. The locks are fair, so
with a load queued for `loaded_models` the three wait for each other, and every
later request behind them. The comment at `src/api/mod.rs:3607` says of the
not-ready answer of a health poll "which the next poll refreshes once the
transition ends": here the transition never ends. The run `registry` has the same
handlers without the unbounded readers, and there every request ends.

Other places where the code departs from what a comment or a document says were
met while modelling. They have no run of their own; where a property makes an
exception for one of them, it is named here.

1. `src/api/engine.rs:686`: while an exclusive job runs, `queued_tasks` counts
   streams that are in the middle of their generation; `src/fabric/node.rs:217`
   calls them "queued but not yet running".
2. `src/api/engine.rs:684`: a snapshot taken across a task's drop pairs an active id
   with zero timestamps, which the comment at line 788 excludes; `StallIsReal` is
   therefore about snapshots during which no task was dropped.
3. `src/inference.rs:7186`: a batch with a row at its context limit reserves pages
   before the position is checked; if the sequences fill the pool the reservation
   fails first and the whole engine is dropped, which the comment at line 7179
   says must not happen.
4. `src/inference.rs:7160`: a row that was refused for its position goes on on the
   CPU with its lease, and the next batch that includes it fails every stream of
   the group, although `src/error.rs:56` says the caller may retry the row.
5. `src/api/mod.rs:24205`: an exclusive job whose only token came from the prompt
   cache ends without releasing the text the prologue held back; the comment at
   line 26236 says such a run "silently loses those trailing bytes" without the
   flush. `DeliveredWhole` leaves out `OneCachedToken`.
6. `src/api/mod.rs:17518`: weights are cached by model id alone, so a slow request of
   a replaced artifact can leave its weights to requests of the new one; line 1759
   says "a same-id replacement cannot silently cross a model step".
7. `src/api/mod.rs:16503`: the fast path of a repeated load rebuilds missing runtimes
   except the diffusion one, so after a load that was cut off it answers success
   for a model that cannot be served; line 16518 says it must not.
   `LoadAnswersServable` is about the other kinds.
8. `src/api/mod.rs:5372`: an embedding runtime is inserted after its model was
   unloaded and stays; line 191 says runtimes are "released with the owning model".
   `NothingLeftOfUnloaded` does not speak of encoders.
9. `src/api/mod.rs:9016`: the memory preflight reserves nothing, so two loads can
   pass with the same free memory; line 8965 says "the guard must never be
   optimistic".
10. `camelid-desktop/src/main.rs:359`: the exit stops the installed engine; one that
    is spawned and not yet installed runs on where no job object holds it; line 351
    says closing must not leave the sidecar in the background. That may be on every
    build: `JobObject::assign(&child).ok()` (`camelid-desktop/src/engine.rs:341`) drops a
    failed assignment, and the child, installed or not, then survives a crash too,
    although line 338 says "no orphaned `camelid` process can survive". `EndLeaves`
    allows for both.
11. `camelid-desktop/src/engine.rs:441`: any HTTP 200 on the port passes the health
    gate; line 260 says it fails loudly "if the bind races".
12. `camelid-desktop/src/main.rs:111`: a retry does not stop a startup that has
    spawned its child and waits; line 105 says "a retry always begins clean".
    `WindowShowsInstalled` is about users who ask for one restart at a time.
13. `src/api/workspace.rs:1878`: a message installed while a cancel request is between
    its locks ends as cancelled and is saved by nobody;
    `docs/architecture/WEB_AGENT_WORKSPACE_PLAN.md:82` says "an unclaimed turn is
    persisted as aborted". The same overlap lets a client be told "answered" of a
    turn that is saved as aborted. `TurnsEnd` and `AnsweredIsStored` are about
    patient clients.
14. `src/api/workspace.rs:1800`: the duplicate check is over before the transition
    lock is taken, and a worker that fails ends its turn before the forwarder has
    saved it (line 1405), so a repeated message id can run twice; the plan's
    line 69 says duplicates "return the existing turn".
15. `src/api/workspace.rs:676`: a follow-up may be installed between the check and the
    deletion of its thread; the plan's line 59 says "Delete saved thread memory when it
    is not active". `DeleteSparesActive` and the theorem `DeletesSpareActive` are about
    patient clients and do not exclude this race.
16. `src/api/mod.rs:17069`: an unload asks the engine to release what is keyed by the
    id and the SHA-256 of the present record. After a load of another file under the
    same id, without `replace`, the resident state of the first file is under another
    key and stays on the device; line 17053 says "release the GPU state the engine
    holds for it". `UnloadAnswersFreed` is about ids that one file is loaded under.
17. `src/api/mod.rs:16527`: the fast path takes any runtime found under the id. A load
    of another runnable file that was cut off between its runtime and its record
    leaves its runtime under the id, and a repeated load of the first file answers
    success with it; line 16518 says a cancelled load "must not turn the idempotent
    fast path into a false success". `LoadAnswersServable` has the same exception.
18. `src/api/mod.rs:17178`: an unload whose pool trim finds the queue full is answered
    with an error although the registries are already cleared; line 17167 says of the
    engine's first answer that it "lands while the registries are still intact".
    `UnloadAnswersFreed` speaks of the unloads that answer success only, and does not
    exclude this.

## 6. Not modelled, and the plan

`PROJECT.json` gives the reason for each component that is left out. Most of the
repository's lines are numeric kernels for CUDA, Metal and CPU, model runtimes,
tokenizers and formats, whose correctness is numeric or over inputs a model
checker cannot enumerate; the models cover the parts in which several threads,
requests or processes share state. What is left, in the order of what matters
most:

1. `KvPool` and `ResidentModelArena`: the CPU block pool, and pins and LRU of
   resident engines across models.
2. `FabricRouting`: probes, placement, forwarding and cancellation over nodes.
3. Speculative decoding: KV rollback after a rejected draft.
4. Workspace compaction, undo and approvals; file deletion in the lifecycle.
5. Distributed inference over TCP.

The theorems follow the models: what a new model adds needs its own inductive invariant.
For the modules that are there, `DeliveredWhole` and `NeverTakenBack` remain, and wait
for a prover that can instantiate an induction theorem (section 4.10).
