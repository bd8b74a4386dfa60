---------------------------- MODULE MCStoreCrash ----------------------------
(***************************************************************************)
(* TLC instances of StoreCrash.                                            *)
(***************************************************************************)
EXTENDS StoreCrash, TLC

=============================================================================
