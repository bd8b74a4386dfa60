--------------------------- MODULE MCTaskBrowser ---------------------------
(***************************************************************************)
(* TLC instances of TaskBrowser.                                           *)
(***************************************************************************)
EXTENDS TaskBrowser

=============================================================================
