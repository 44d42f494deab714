---------------------------- MODULE MCGcsState ----------------------------
(* Instances of GcsState for TLC. *)
EXTENDS GcsState
===========================================================================
