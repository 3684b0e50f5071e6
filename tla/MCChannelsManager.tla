-------------------------- MODULE MCChannelsManager --------------------------
(***************************************************************************)
(* ChannelsManager on small instances.                                     *)
(***************************************************************************)
EXTENDS ChannelsManager, TLC

CONSTANTS s1, s2, k1, k2

(* One conversation, or two, in one channel or in two.                     *)
OneHome  == (k1 :> s1)
SameHome == (k1 :> s1) @@ (k2 :> s1)
OwnHome  == (k1 :> s1) @@ (k2 :> s2)
=============================================================================
