--------------------------- MODULE MCCudaPagedKv ---------------------------
(* Instances of CudaPagedKv for TLC. *)
EXTENDS CudaPagedKv, TLC

\* Sessions are interchangeable, and so are tokens.
Symmetry == Permutations(Sessions) \cup Permutations(Tokens)
=============================================================================
