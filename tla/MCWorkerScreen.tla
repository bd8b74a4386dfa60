--------------------------- MODULE MCWorkerScreen ---------------------------
(***************************************************************************)
(* TLC instances of WorkerScreen.                                          *)
(***************************************************************************)
EXTENDS WorkerScreen, TLC

\* Two loops of a worker on one task would share its phase in the code.
ASSUME OneLoop == Concurrency = 1

=============================================================================
