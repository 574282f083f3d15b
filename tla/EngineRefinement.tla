-------------------------- MODULE EngineRefinement --------------------------
(* EngineWorker implements EngineService: the mapping of its state.        *)
EXTENDS EngineWorker

StatusMap == [idle |-> "free", posting |-> "asking", refused |-> "away",
              accepted |-> "owned", lost |-> "lost"]

Service == INSTANCE EngineService WITH
    Capacity  <- QueueDepth + Slots + 1,
    Threshold <- QueueDepth,
    status    <- [j \in Jobs |-> StatusMap[st[j]]],
    computing <- IF wpc \in {"run", "exclusive"} THEN exec ELSE {},
    up        <- ~Closed

\* The engine of engine.rs keeps every promise of EngineService: at most one
\* call computes at a time, ownership is bounded, a refusal has a cause, and a
\* job that was taken ends exactly once unless the worker thread dies.
ImplementsService == Service!Spec
=============================================================================
