----------------------------- MODULE MCPipeline -----------------------------
(***************************************************************************)
(* TLC instances of Pipeline.                                              *)
(***************************************************************************)
EXTENDS Pipeline, TLC

\* Threads, runs and keys are interchangeable.
Symmetry == Permutations(Thread) \union Permutations(Run) \union Permutations(Key)

=============================================================================
