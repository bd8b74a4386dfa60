------------------------- MODULE MCChannelRegistry -------------------------
(***************************************************************************)
(* TLC instances of ChannelRegistry.                                       *)
(***************************************************************************)
EXTENDS ChannelRegistry, TLC

Symmetry == Permutations(Channel) \union Permutations(Sound)

=============================================================================
