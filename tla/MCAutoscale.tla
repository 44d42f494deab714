---------------------------- MODULE MCAutoscale ----------------------------
(* Instances of Autoscale for TLC. *)
EXTENDS Autoscale

Three == {<<"spot_a", 1>>, <<"spot_a", 2>>, <<"spot_b", 1>>}
First == {<<"spot_a", 1>>}
=============================================================================
