------------------------- MODULE MCEngineRefinement -------------------------
(* Instances of EngineRefinement for TLC. *)
EXTENDS EngineRefinement, TLC

\* Jobs are interchangeable in the worker, in the service and in the mapping.
JobSymmetry == Permutations(Jobs)
=============================================================================
