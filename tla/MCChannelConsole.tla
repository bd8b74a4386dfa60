-------------------------- MODULE MCChannelConsole --------------------------
(***************************************************************************)
(* TLC instances of ChannelConsole.                                        *)
(***************************************************************************)
EXTENDS ChannelConsole

=============================================================================
