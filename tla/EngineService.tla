---------------------------- MODULE EngineService ---------------------------
(***************************************************************************)
(* What the engine promises its callers, with no channel, slot, round or   *)
(* counter: it takes a bounded number of jobs, turns a caller away only    *)
(* when that many jobs are ahead of it or it is down, computes for one     *)
(* call at a time, forgets no job it took, and goes down in an orderly way *)
(* only when it has finished them all.                                     *)
(***************************************************************************)
EXTENDS Integers, FiniteSets

CONSTANTS
    Jobs,       \* jobs that can be outstanding at once
    Capacity,   \* the most jobs the engine ever owns
    Threshold   \* a caller is turned away only past this many owned jobs

VARIABLES
    status,     \* what the caller of each job knows
    computing,  \* the jobs of the call that is computing
    up          \* the engine thread is alive

vars == <<status, computing, up>>

Owned == {j \in Jobs : status[j] = "owned"}

Init ==
    /\ status = [j \in Jobs |-> "free"]
    /\ computing = {}
    /\ up = TRUE

\* A caller asks for a job to be run.
Ask(j) ==
    /\ status[j] = "free"
    /\ status' = [status EXCEPT ![j] = "asking"]
    /\ UNCHANGED <<computing, up>>

\* The engine takes the job: it now owes its completion.
Take(j) ==
    /\ status[j] = "asking"
    /\ up
    /\ Cardinality(Owned) < Capacity
    /\ status' = [status EXCEPT ![j] = "owned"]
    /\ UNCHANGED <<computing, up>>

\* The engine turns the caller away, with cause.
TurnAway(j) ==
    /\ status[j] = "asking"
    /\ ~up \/ Cardinality(Owned) >= Threshold
    /\ status' = [status EXCEPT ![j] = "away"]
    /\ UNCHANGED <<computing, up>>

\* The caller that was turned away learns of it.
Leave(j) ==
    /\ status[j] = "away"
    /\ status' = [status EXCEPT ![j] = "free"]
    /\ UNCHANGED <<computing, up>>

\* One call starts to compute, for one job or for several that share it.
Start ==
    /\ up
    /\ computing = {}
    /\ computing' \in (SUBSET Owned) \ {{}}
    /\ UNCHANGED <<status, up>>

Stop ==
    /\ computing # {}
    /\ computing' = {}
    /\ UNCHANGED <<status, up>>

\* Some owned jobs are over, each of them once.
Complete ==
    /\ computing = {}
    /\ \E S \in (SUBSET Owned) \ {{}} :
          status' = [j \in Jobs |-> IF j \in S THEN "free" ELSE status[j]]
    /\ UNCHANGED <<computing, up>>

\* An orderly end owes nobody anything; a crash loses what was owned.
GoDown ==
    /\ up
    /\ Owned = {}
    /\ computing = {}
    /\ up' = FALSE
    /\ UNCHANGED <<status, computing>>

Crash ==
    /\ up
    /\ computing = {}
    /\ up' = FALSE
    /\ status' = [j \in Jobs |-> IF j \in Owned THEN "lost" ELSE status[j]]
    /\ UNCHANGED computing

Next ==
    \/ \E j \in Jobs : Ask(j) \/ Take(j) \/ TurnAway(j) \/ Leave(j)
    \/ Start \/ Stop \/ Complete \/ GoDown \/ Crash

Spec == Init /\ [][Next]_vars
=============================================================================
