---------------------------- MODULE MCTaskStore ----------------------------
(***************************************************************************)
(* TLC instances of TaskStore.  No symmetry: the instance checks liveness. *)
(***************************************************************************)
EXTENDS TaskStore, TLC

=============================================================================
