--------------------------- MODULE MCEngineWorker ---------------------------
(* Instances of EngineWorker for TLC. *)
EXTENDS EngineWorker, TLC

\* Jobs are interchangeable: no action and no invariant names one.
JobSymmetry == Permutations(Jobs)
=============================================================================
