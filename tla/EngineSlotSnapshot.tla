------------------------- MODULE EngineSlotSnapshot -------------------------
(***************************************************************************)
(* The four atomics through which the worker of src/api/engine.rs tells    *)
(* /v1/health, /v1/slots and the metrics which task is running, and        *)
(* slot_snapshot, which loads them one by one while the worker goes on     *)
(* storing.  Every store and every load is a step.                         *)
(*                                                                         *)
(* Its specification is SnapshotSpec, so that EngineWorkerProofs can       *)
(* extend this module beside EngineWorker.                                 *)
(***************************************************************************)
EXTENDS Integers, Sequences

CONSTANTS
    Tasks,     \* task ids, positive
    MaxClock,  \* bound on epoch_millis
    MaxUnits   \* bound on the units a task reports

ASSUME TasksAssumption == Tasks \subseteq Nat \ {0}
ASSUME ClockAssumption == MaxClock \in Nat \ {0} /\ MaxUnits \in Nat

Fields == {"id", "started", "last", "units"}

VARIABLES
    clock,    \* epoch_millis
    cell,     \* the atomics active_task_id, active_started_..., active_last_...,
              \* active_completed_units
    slot,     \* CooperativeSlotState of each task: its started, last and units
    live,     \* tasks that have begun and are not dropped
    task,     \* the task the worker is publishing, running or dropping, or 0
    plan,     \* stores the worker still has to make before its next decision
    running,  \* the job's code runs
    rpc,      \* loads slot_snapshot still has to make
    seen,     \* what it has loaded
    now,      \* its local of that name
    dropped   \* an ActiveTaskGuard zeroed the id since it was loaded

workerVars == <<cell, slot, live, task, plan, running>>
readerVars == <<rpc, seen, now, dropped>>
snapshotVars == <<clock, workerVars, readerVars>>

\* The order of the stores when a task is published (post's closure, begin_step
\* and publish_aggregate), of those of ActiveTaskGuard::drop, and of the loads.
PublishOrder_IdFirst == <<"id", "started", "last", "units">>
PublishOrder == <<"started", "last", "units", "id">>
DropOrder == <<"id", "started", "last", "units">>
LoadOrder == <<"id", "started", "last", "units">>

Blank == [f \in Fields |-> 0]

SnapshotTypeOK ==
    /\ clock \in 1 .. MaxClock
    /\ cell \in [Fields -> Nat]
    /\ slot \in [Tasks -> [Fields -> Nat]]
    /\ live \subseteq Tasks
    /\ task \in Tasks \cup {0}
    /\ plan \in Seq(Fields \X Nat)
    /\ running \in BOOLEAN
    /\ running => task \in live
    /\ rpc \in Seq(Fields)
    /\ seen \in [Fields -> Nat]
    /\ now \in 0 .. MaxClock
    /\ dropped \in BOOLEAN

SnapshotInit ==
    /\ clock = 1
    /\ cell = Blank
    /\ slot = [t \in Tasks |-> Blank]
    /\ live = {}
    /\ task = 0
    /\ plan = <<>>
    /\ running = FALSE
    /\ rpc = <<>>
    /\ seen = Blank
    /\ now = 0
    /\ dropped = FALSE

Tick ==
    /\ clock < MaxClock
    /\ clock' = clock + 1
    /\ UNCHANGED <<workerVars, readerVars>>

Stores(order, values) == [i \in 1 .. Len(order) |-> <<order[i], values[order[i]]>>]

\* A task's first step, or the next step of a stream that yielded: its own
\* start, progress and units go into the atomics, then its id.
Begin(t) ==
    /\ plan = <<>> /\ ~running
    /\ live' = live \cup {t}
    /\ slot' = [slot EXCEPT ![t] = IF t \in live THEN @
                    ELSE [Blank EXCEPT !["id"] = t, !["started"] = clock, !["last"] = clock]]
    /\ task' = t
    /\ plan' = Stores(PublishOrder, slot'[t])
    /\ UNCHANGED <<clock, cell, running, readerVars>>

\* The worker's next store. After the last one of a publication the job runs.
Store ==
    /\ plan # <<>>
    /\ cell' = [cell EXCEPT ![Head(plan)[1]] = Head(plan)[2]]
    /\ plan' = Tail(plan)
    /\ running' = (task # 0 /\ Tail(plan) = <<>>)
    /\ dropped' = (dropped \/ Head(plan) = <<"id", 0>>)
    /\ UNCHANGED <<clock, slot, live, task, rpc, seen, now>>

\* record_progress: the units, then the time.
RecordUnits ==
    /\ running
    /\ cell["id"] # 0
    /\ \E u \in 0 .. MaxUnits : cell' = [cell EXCEPT !["units"] = u]
    /\ plan' = <<<<"last", clock>>>>
    /\ running' = FALSE
    /\ UNCHANGED <<clock, slot, live, task, readerVars>>

\* A stream yields: finish_step keeps its progress, with the time if it made
\* any (in the prompt or in tokens); the atomics stay as they are.
Yield ==
    /\ running
    /\ running' = FALSE
    /\ \E u \in slot[task]["units"] .. MaxUnits, time \in {slot[task]["last"], clock} :
          /\ u > slot[task]["units"] => time = clock
          /\ slot' = [slot EXCEPT ![task] = [@ EXCEPT !["units"] = u, !["last"] = time]]
    /\ task' = 0
    /\ UNCHANGED <<clock, cell, live, plan, readerVars>>

\* A task returns or unwinds: its ActiveTaskGuard zeroes the atomics.
Complete ==
    /\ running
    /\ running' = FALSE
    /\ live' = live \ {task}
    /\ slot' = [slot EXCEPT ![task] = Blank]
    /\ task' = 0
    /\ plan' = Stores(DropOrder, Blank)
    /\ UNCHANGED <<clock, cell, readerVars>>

\* slot_snapshot loads the id, notes the time, then loads the rest.
LoadId ==
    /\ rpc = <<>>
    /\ seen' = [Blank EXCEPT !["id"] = cell["id"]]
    /\ rpc' = Tail(LoadOrder)
    /\ now' = 0
    /\ dropped' = FALSE
    /\ UNCHANGED <<clock, workerVars>>

Load ==
    /\ rpc # <<>>
    /\ seen' = [seen EXCEPT ![Head(rpc)] = cell[Head(rpc)]]
    /\ rpc' = Tail(rpc)
    /\ now' = IF now = 0 THEN clock ELSE now
    /\ UNCHANGED <<clock, workerVars, dropped>>

SnapshotNext ==
    \/ Tick
    \/ \E t \in Tasks : Begin(t)
    \/ Store \/ RecordUnits \/ Yield \/ Complete
    \/ LoadId \/ Load

SnapshotSpec == SnapshotInit /\ [][SnapshotNext]_snapshotVars

-----------------------------------------------------------------------------
\* A snapshot is complete; now = 0 only before the first one.
Reported == rpc = <<>> /\ now # 0

\* stalled_seconds of the snapshot, in ticks.
Stalled ==
    LET since == IF seen["last"] > seen["started"] THEN seen["last"] ELSE seen["started"]
    IN  IF seen["id"] = 0 \/ now < since THEN 0 ELSE now - since

\* Unless a task was dropped in the middle of it, a snapshot that names a task
\* comes with real timestamps, though the worker may have published others
\* since the id was loaded: the stall it reports began when the engine already
\* ran, it is not the age of the epoch.
StallIsReal == Reported /\ ~dropped => Stalled < now

\* Snapshots of slot_snapshot are sound: typed, and with no stall out of the blue,
\* whatever publication, progress or other task falls between two loads.
SnapshotSound == SnapshotTypeOK /\ StallIsReal
=============================================================================
