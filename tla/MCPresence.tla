----------------------------- MODULE MCPresence -----------------------------
(***************************************************************************)
(* TLC instances of Presence.                                              *)
(***************************************************************************)
EXTENDS Presence, TLC

\* The lists of labels are interchangeable.
Symmetry == Permutations(Labels) \union Permutations(Loop)

=============================================================================
