----------------------------- MODULE MCDispatch -----------------------------
(* Instances of Dispatch for TLC. *)
EXTENDS Dispatch

NoDeps == [t \in Task |-> {}]
=============================================================================
