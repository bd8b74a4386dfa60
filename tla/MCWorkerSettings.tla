-------------------------- MODULE MCWorkerSettings --------------------------
(***************************************************************************)
(* TLC instances of WorkerSettings.                                        *)
(***************************************************************************)
EXTENDS WorkerSettings, TLC

\* The other settings' values are interchangeable.
Symmetry == Permutations(Rest)

=============================================================================
