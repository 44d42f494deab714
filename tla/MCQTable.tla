------------------------------ MODULE MCQTable ------------------------------
(* Instances of QTable for TLC. *)
EXTENDS QTable
=============================================================================
