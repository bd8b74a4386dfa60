-------------------------- MODULE MCExecutionPlane --------------------------
(***************************************************************************)
(* TLC instances of ExecutionPlane.                                        *)
(***************************************************************************)
EXTENDS ExecutionPlane, TLC

\* Workers are interchangeable, and so are tasks.
Symmetry == Permutations(Worker) \union Permutations(Task)

=============================================================================
