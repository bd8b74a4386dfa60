---------------------------- MODULE MCJudgement ----------------------------
(***************************************************************************)
(* The TLC instance of Judgement.                                          *)
(***************************************************************************)
EXTENDS Judgement

=============================================================================
