--------------------------- MODULE MCMembership ---------------------------
(* Instances of Membership for TLC: the heartbeat period of the code and  *)
(* the one its patch notes give. *)
EXTENDS Membership
===========================================================================
