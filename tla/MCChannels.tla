----------------------------- MODULE MCChannels ------------------------------
(***************************************************************************)
(* Instances of module Channels.                                           *)
(***************************************************************************)
EXTENDS Channels

=============================================================================
